---- MODULE Spec2Model ----
(***************************************************************************)
(* Source-redshift sensitivity kernel: flat LCDM distance engine           *)
(* (src/src/cosmology.py), raw input validator (src/src/validate.py), the  *)
(* finite-difference sensitivity kernel (src/src/sensitivity.py), the      *)
(* batch runner (src/scripts/run_pilot.py) and the catalogue kernel        *)
(* (src/src/metrics/sensitivity.py, src/scripts/run_catalog.py).           *)
(*                                                                         *)
(* Python floats are modelled as binary floating-point numbers of reduced  *)
(* width: a finite value is m * 2^e with a Prec-bit signed mantissa m,     *)
(* rounded to nearest (ties to even); a result whose leading bit lies      *)
(* above 2^EMax overflows, one below 2^-EMax is flushed to zero.  NaN and  *)
(* the two infinities are values of their own.  A raised Python exception  *)
(* is a value too (kind = the exception's type); it propagates through     *)
(* every later operation, as the exception unwinds the Python call stack.  *)
(*                                                                         *)
(* Seven specifications share the variables:                               *)
(*   Spec          one call of compute_sensitivity;                        *)
(*   CosmoSpec     one call of a FlatLambdaCDM method on an instance built *)
(*                 with any n_int;                                         *)
(*   ThreadSpec    concurrent method calls on one shared instance;         *)
(*   ValidateSpec  one call of validate_lens_inputs in either mode;        *)
(*   BatchSpec     the loop of run_pilot.py over the rows of a catalogue;  *)
(*   StagedSpec    one call of compute_sensitivity stage by stage, with    *)
(*                 the cosmology methods it invokes;                       *)
(*   KernelsSpec   compute_sensitivity and dlnM_dzs on the same system.    *)
(***************************************************************************)
EXTENDS Integers, Sequences, FiniteSets, TLC

\* ------------------------------------------------------------------------
\* Width of the modelled floating-point format.
Prec == 12
EMax == 256

\* ------------------------------------------------------------------------
\* Values.  Every value is a record [k, m, e]:
\*   k = "fin": the number m * 2^e (m = 0, or 2^(Prec-1) <= |m| < 2^Prec)
\*   k = "inf": m = 1 for +inf, m = -1 for -inf
\*   k = "nan"
\*   k = "none": Python None;  k = "str": a non-numeric string;
\*   k = "bigint": a Python int too large for a float
\*   k = "TypeError", "ValueError", "OverflowError", "ZeroDivisionError":
\*       the exception raised while computing the value
Val(k, m, e) == [k |-> k, m |-> m, e |-> e]
Zero == Val("fin", 0, 0)
NaN == Val("nan", 0, 0)
PInf == Val("inf", 1, 0)
NInf == Val("inf", -1, 0)
None == Val("none", 0, 0)
Str == Val("str", 0, 0)
BigInt == Val("bigint", 0, 0)
Exc(t) == Val(t, 0, 0)
ExcKinds == {"TypeError", "ValueError", "OverflowError", "ZeroDivisionError"}

IsExc(x) == x.k \in ExcKinds
IsFin(x) == x.k = "fin"
IsFloat(x) == x.k \in {"fin", "inf", "nan"}
Abs(n) == IF n < 0 THEN -n ELSE n
Sgn(n) == IF n < 0 THEN -1 ELSE IF n > 0 THEN 1 ELSE 0
SInf(s) == IF s < 0 THEN NInf ELSE PInf

\* number of bits of a, a >= 1
RECURSIVE BitLen(_)
BitLen(a) ==
  IF a < 2 THEN 1
  ELSE IF a >= 65536 THEN 16 + BitLen(a \div 65536)
  ELSE IF a >= 256 THEN 8 + BitLen(a \div 256)
  ELSE IF a >= 16 THEN 4 + BitLen(a \div 16)
  ELSE IF a >= 4 THEN 2 + BitLen(a \div 4)
  ELSE 2

\* the finite value s * m * 2^e of a normalised mantissa, with overflow to
\* infinity and underflow to zero
Finite(s, m, e) ==
  IF e + Prec - 1 > EMax THEN SInf(s)
  ELSE IF e + Prec - 1 < -EMax THEN Zero
  ELSE Val("fin", s * m, e)

\* q + r / (2 * half) rounded to an integer, ties to even
HalfEven(q, r, half) ==
  IF r > half \/ (r = half /\ q % 2 = 1) THEN q + 1 ELSE q

\* a mantissa that rounded up to 2^Prec is renormalised
Carry(s, q, e) ==
  Finite(s, IF q = 2 ^ Prec THEN 2 ^ (Prec - 1) ELSE q,
         IF q = 2 ^ Prec THEN e + 1 ELSE e)

\* s * a * 2^E rounded to Prec bits, sh = BitLen(a) - Prec bits dropped
RoundBits(s, a, E, sh) ==
  IF sh <= 0 THEN Finite(s, a * (2 ^ (-sh)), E + sh)
  ELSE Carry(s, HalfEven(a \div (2 ^ sh), a % (2 ^ sh), 2 ^ (sh - 1)), E + sh)

\* The float nearest to M * 2^E (ties to even), with overflow to infinity
\* and underflow to zero.
Round(M, E) ==
  IF M = 0 THEN Zero
  ELSE RoundBits(Sgn(M), Abs(M), E, BitLen(Abs(M)) - Prec)

FromInt(n) == Round(n, 0)

FNeg(x) ==
  IF x.k = "fin" \/ x.k = "inf" THEN Val(x.k, -x.m, x.e) ELSE x

\* IEEE comparisons: every comparison with NaN is false.
Cmp(x, y) ==
  \* sign of x - y for two non-NaN floats
  IF x.k = "inf" THEN (IF y.k = "inf" THEN Sgn(x.m - y.m) ELSE x.m)
  ELSE IF y.k = "inf" THEN -y.m
  ELSE IF x.m = 0 THEN -Sgn(y.m)
  ELSE IF y.m = 0 THEN Sgn(x.m)
  ELSE IF Sgn(x.m) # Sgn(y.m) THEN Sgn(x.m)
  ELSE IF x.e = y.e THEN Sgn(x.m - y.m)
  ELSE IF x.e > y.e THEN Sgn(x.m) ELSE -Sgn(x.m)
Ordered(x, y) == x.k \in {"fin", "inf"} /\ y.k \in {"fin", "inf"}
FLt(x, y) == Ordered(x, y) /\ Cmp(x, y) < 0
FLe(x, y) == Ordered(x, y) /\ Cmp(x, y) <= 0
FGt(x, y) == Ordered(x, y) /\ Cmp(x, y) > 0
FEq(x, y) == Ordered(x, y) /\ Cmp(x, y) = 0

\* x + y
FAdd(x, y) ==
  IF IsExc(x) THEN x ELSE IF IsExc(y) THEN y
  ELSE IF x.k = "nan" \/ y.k = "nan" THEN NaN
  ELSE IF x.k = "inf" THEN (IF y.k = "inf" /\ y.m # x.m THEN NaN ELSE x)
  ELSE IF y.k = "inf" THEN y
  ELSE IF x.m = 0 THEN y
  ELSE IF y.m = 0 THEN x
  ELSE IF x.e - y.e > Prec + 2 THEN x
  ELSE IF x.e - y.e < -(Prec + 2) THEN y
  ELSE Round(IF x.e >= y.e THEN x.m * (2 ^ (x.e - y.e)) + y.m
             ELSE x.m + y.m * (2 ^ (y.e - x.e)),
             IF x.e >= y.e THEN y.e ELSE x.e)

FSub(x, y) == FAdd(x, FNeg(y))

\* x * y
FMul(x, y) ==
  IF IsExc(x) THEN x ELSE IF IsExc(y) THEN y
  ELSE IF x.k = "nan" \/ y.k = "nan" THEN NaN
  ELSE IF x.k = "inf" \/ y.k = "inf"
       THEN (IF x.m = 0 \/ y.m = 0 THEN NaN ELSE SInf(Sgn(x.m) * Sgn(y.m)))
  ELSE Round(x.m * y.m, x.e + y.e)

\* x / y when y is not zero
FQuot(x, y) ==
  IF x.k = "nan" \/ y.k = "nan" THEN NaN
  ELSE IF x.k = "inf" THEN (IF y.k = "inf" THEN NaN ELSE SInf(x.m * Sgn(y.m)))
  ELSE IF y.k = "inf" THEN Zero
  ELSE IF x.m = 0 THEN Zero
  ELSE LET num == Abs(x.m) * (2 ^ (Prec + 2))
           q == num \div Abs(y.m)
           sticky == IF num % Abs(y.m) = 0 THEN 0 ELSE 1
       IN Round(Sgn(x.m) * Sgn(y.m) * (2 * q + sticky), x.e - y.e - (Prec + 3))

IsZero(x) == x.k = "fin" /\ x.m = 0

\* x / y.  On Python floats (np = FALSE) a zero divisor raises
\* ZeroDivisionError; on numpy float64 values (np = TRUE) the division is
\* IEEE's and a zero divisor gives inf or nan (with a RuntimeWarning, which
\* is not an exception).
FDiv(np, x, y) ==
  IF IsExc(x) THEN x ELSE IF IsExc(y) THEN y
  ELSE IF IsZero(y)
       THEN (IF ~np THEN Exc("ZeroDivisionError")
             ELSE IF x.k = "nan" \/ IsZero(x) THEN NaN
             ELSE SInf(Sgn(x.m)))
  ELSE FQuot(x, y)

\* the rational n/d as a float
FRat(n, d) == FQuot(FromInt(n), FromInt(d))

\* largest s with s*s <= M, by bits from b downwards
RECURSIVE ISqrtFrom(_, _, _)
ISqrtFrom(M, r, b) ==
  IF b = 0 THEN r
  ELSE IF (r + b) * (r + b) <= M THEN ISqrtFrom(M, r + b, b \div 2)
  ELSE ISqrtFrom(M, r, b \div 2)
ISqrt(M) == ISqrtFrom(M, 0, 16384)

\* sqrt(M) * 2^e from s = ISqrt(M), correctly rounded
SqrtRound(M, s, e) == Round(2 * s + (IF s * s = M THEN 0 ELSE 1), e - 1)

\* square root of a finite x > 0 whose mantissa is shifted by k bits,
\* x.e - k even
SqrtShift(x, k) == SqrtRound(x.m * (2 ^ k), ISqrt(x.m * (2 ^ k)), (x.e - k) \div 2)

SqrtPos(x) ==
  SqrtShift(x, IF (x.e - (Prec + 2)) % 2 = 0 THEN Prec + 2 ELSE Prec + 3)

\* math.sqrt (np = FALSE): a negative argument raises ValueError;
\* numpy.sqrt (np = TRUE): a negative argument gives nan
FSqrt(np, x) ==
  IF IsExc(x) THEN x
  ELSE IF x.k = "nan" THEN NaN
  ELSE IF x.m < 0 THEN (IF np THEN NaN ELSE Exc("ValueError"))
  ELSE IF x.k = "inf" \/ x.m = 0 THEN x
  ELSE SqrtPos(x)

\* a power p of the float x: on Python floats (np = FALSE) a finite x
\* whose power overflows raises OverflowError; on numpy values it is inf
Overflowed(np, x, p) ==
  IF ~np /\ IsFin(x) /\ p.k = "inf" THEN Exc("OverflowError") ELSE p

\* x ** 2 and x ** 3; underflow gives 0.0
FPow(np, x, n) ==
  Overflowed(np, x, FMul(IF n = 3 THEN FMul(x, x) ELSE x, x))

\* fractional bits of log2(y / 2^14) for 2^14 <= y < 2^15, by repeated
\* squaring; n bits are still to be produced, acc holds those produced
RECURSIVE Log2Frac(_, _, _)
Log2Frac(y, n, acc) ==
  IF n = 0 THEN acc
  ELSE LET y2 == (y * y) \div 16384
       IN IF y2 >= 32768 THEN Log2Frac(y2 \div 2, n - 1, 2 * acc + 1)
          ELSE Log2Frac(y2, n - 1, 2 * acc)

LN2 == Round(11629080, -24)

\* math.log: natural logarithm; x <= 0 raises ValueError
FLog(x) ==
  IF IsExc(x) THEN x
  ELSE IF x.k = "nan" THEN NaN
  ELSE IF x.m <= 0 THEN Exc("ValueError")
  ELSE IF x.k = "inf" THEN PInf
  ELSE FMul(Round((x.e + Prec - 1) * 16384
                  + Log2Frac(IF Prec <= 15 THEN x.m * (2 ^ (15 - Prec))
                             ELSE x.m \div (2 ^ (Prec - 15)), 14, 0),
                  -14),
            LN2)

\* float(x): None raises TypeError, a non-numeric string ValueError, an
\* int beyond the float range OverflowError
ToFloat(x) ==
  IF x.k = "none" THEN Exc("TypeError")
  ELSE IF x.k = "str" THEN Exc("ValueError")
  ELSE IF x.k = "bigint" THEN Exc("OverflowError")
  ELSE x

\* ------------------------------------------------------------------------
\* cosmology.py: physical constants (SI)
C_LIGHT == FromInt(299792458)
\* 6.67430e-11
G_NEWTON == Round(9618680, -57)
\* 3.0856775814913673e22
MPC_TO_M == Round(13703161, 51)
KM_TO_M == FromInt(1000)
\* math.pi
PI == Round(13176795, -22)
\* 1.0
One == Val("fin", 2 ^ (Prec - 1), 1 - Prec)

\* FlatLambdaCDM.__init__
FlatLambdaCDM(H0_km_s_Mpc, Om0, Ode0, n_int) ==
  [H0_km_s_Mpc |-> H0_km_s_Mpc,
   Om0 |-> Om0,
   Ode0 |-> IF Ode0.k = "none" THEN FSub(One, Om0) ELSE Ode0,
   n_int |-> IF n_int % 2 # 0 THEN n_int + 1 ELSE n_int,
   H0_SI |-> FDiv(FALSE, FMul(H0_km_s_Mpc, KM_TO_M), MPC_TO_M)]

\* FlatLambdaCDM.E on a float z: math.sqrt and float ** on the scalar
\* branch (np = FALSE), numpy.sqrt and array ** on one element of the
\* array branch (np = TRUE)
E(cosmo, np, z) ==
  FSqrt(np, FAdd(FMul(cosmo.Om0, FPow(np, FAdd(One, z), 3)), cosmo.Ode0))

\* invE of comoving_distance: 1.0 / self.E(x)
invE(cosmo, np, x) == FDiv(np, One, E(cosmo, np, x))

\* node i of the n+1 quadrature nodes: a, b and a + i*h in the scalar
\* path; numpy.linspace(a, b, n+1)[i] in the vectorized path, which is
\* i*step + a (for i = 0 too) with the last node set to b
Node(np, a, b, h, n, i) ==
  IF i = n THEN b
  ELSE IF i = 0 /\ ~np THEN a
  ELSE FAdd(a, FMul(FromInt(i), h))

\* sum of invE over the nodes i, i+2, ... below n, added to acc in order
RECURSIVE SumNodes(_, _, _, _, _, _, _, _)
SumNodes(cosmo, np, a, b, h, n, i, acc) ==
  IF i >= n THEN acc
  ELSE SumNodes(cosmo, np, a, b, h, n, i + 2,
                FAdd(acc, invE(cosmo, np, Node(np, a, b, h, n, i))))

\* a Simpson's sum with the weights of the odd and of the even interior
\* nodes exchanged
simpson_sum_weights_exchanged(cosmo, np, a, b, n, h) ==
  FMul(FDiv(FALSE, h, FromInt(3)),
       FAdd(FAdd(FAdd(invE(cosmo, np, Node(np, a, b, h, n, 0)),
                      invE(cosmo, np, Node(np, a, b, h, n, n))),
                 FMul(FromInt(2), SumNodes(cosmo, np, a, b, h, n, 1, Zero))),
            FMul(FromInt(4), SumNodes(cosmo, np, a, b, h, n, 2, Zero))))

\* Simpson's sum for the step h: (h/3) (s0 + 4 s1 + 2 s2)
simpson_sum(cosmo, np, a, b, n, h) ==
  FMul(FDiv(FALSE, h, FromInt(3)),
       FAdd(FAdd(FAdd(invE(cosmo, np, Node(np, a, b, h, n, 0)),
                      invE(cosmo, np, Node(np, a, b, h, n, n))),
                 FMul(FromInt(4), SumNodes(cosmo, np, a, b, h, n, 1, Zero))),
            FMul(FromInt(2), SumNodes(cosmo, np, a, b, h, n, 2, Zero))))

\* _simpson_integrate with f = invE
simpson_integrate(cosmo, np, a, b, n) ==
  IF n <= 0 \/ (n % 2) # 0 THEN Exc("ValueError")
  ELSE simpson_sum(cosmo, np, a, b, n, FDiv(FALSE, FSub(b, a), FromInt(n)))

\* comoving_distance without the test of the sign of z
comoving_distance_unchecked(cosmo, np, z) ==
  IF IsExc(ToFloat(z)) THEN ToFloat(z)
  ELSE FMul(FDiv(FALSE, C_LIGHT, cosmo.H0_SI),
            IF FGt(ToFloat(z), Zero)
            THEN simpson_integrate(cosmo, np, Zero, ToFloat(z), cosmo.n_int)
            ELSE Zero)

\* FlatLambdaCDM.comoving_distance
comoving_distance(cosmo, np, z) ==
  IF IsExc(ToFloat(z)) THEN ToFloat(z)
  ELSE IF FLt(ToFloat(z), Zero) THEN Exc("ValueError")
  ELSE FMul(FDiv(FALSE, C_LIGHT, cosmo.H0_SI),
            IF FGt(ToFloat(z), Zero)
            THEN simpson_integrate(cosmo, np, Zero, ToFloat(z), cosmo.n_int)
            ELSE Zero)

\* FlatLambdaCDM.angular_diameter_distance
angular_diameter_distance(cosmo, np, z) ==
  IF IsExc(ToFloat(z)) THEN ToFloat(z)
  ELSE IF FLt(ToFloat(z), Zero) THEN Exc("ValueError")
  ELSE FDiv(np, comoving_distance(cosmo, np, ToFloat(z)),
            FAdd(One, ToFloat(z)))

\* FlatLambdaCDM.angular_diameter_distance_z1z2
angular_diameter_distance_z1z2(cosmo, np, z1, z2) ==
  IF IsExc(ToFloat(z1)) THEN ToFloat(z1)
  ELSE IF IsExc(ToFloat(z2)) THEN ToFloat(z2)
  ELSE IF FLt(ToFloat(z1), Zero) \/ FLt(ToFloat(z2), Zero)
       THEN Exc("ValueError")
  ELSE IF FLe(ToFloat(z2), ToFloat(z1)) THEN NaN
  ELSE FDiv(np, FSub(comoving_distance(cosmo, np, ToFloat(z2)),
                     comoving_distance(cosmo, np, ToFloat(z1))),
            FAdd(One, ToFloat(z2)))

\* FlatLambdaCDM.sigma_crit once the three distances are known: the test
\* of the distances, pref and the result
sigma_of(np, D_l, D_s, D_ls) ==
  IF IsExc(D_l) THEN D_l
  ELSE IF IsExc(D_s) THEN D_s
  ELSE IF IsExc(D_ls) THEN D_ls
  ELSE IF FLe(D_l, Zero) \/ FLe(D_s, Zero) \/ FLe(D_ls, Zero)
          \/ D_l.k = "nan" \/ D_s.k = "nan" \/ D_ls.k = "nan"
       THEN NaN
  ELSE FMul(FDiv(FALSE, FPow(FALSE, C_LIGHT, 2),
                 FMul(FMul(FromInt(4), PI), G_NEWTON)),
            FDiv(np, D_s, FMul(D_l, D_ls)))

\* sigma_crit evaluating the three distances without testing z_s <= z_l
sigma_crit_after_distances(cosmo, np, z_l, z_s) ==
  IF IsExc(ToFloat(z_l)) THEN ToFloat(z_l)
  ELSE IF IsExc(ToFloat(z_s)) THEN ToFloat(z_s)
  ELSE sigma_of(np,
                angular_diameter_distance(cosmo, np, ToFloat(z_l)),
                angular_diameter_distance(cosmo, np, ToFloat(z_s)),
                angular_diameter_distance_z1z2(cosmo, np, ToFloat(z_l),
                                               ToFloat(z_s)))

\* FlatLambdaCDM.sigma_crit
sigma_crit(cosmo, np, z_l, z_s) ==
  IF IsExc(ToFloat(z_l)) THEN ToFloat(z_l)
  ELSE IF IsExc(ToFloat(z_s)) THEN ToFloat(z_s)
  ELSE IF FLe(ToFloat(z_s), ToFloat(z_l)) THEN NaN
  ELSE sigma_of(np,
                angular_diameter_distance(cosmo, np, ToFloat(z_l)),
                angular_diameter_distance(cosmo, np, ToFloat(z_s)),
                angular_diameter_distance_z1z2(cosmo, np, ToFloat(z_l),
                                               ToFloat(z_s)))

\* ------------------------------------------------------------------------
\* validate.py

\* _is_nan and _is_inf (validate.py and sensitivity.py define the same two)
is_nan(x) == x.k = "nan"
is_inf(x) == x.k = "inf"

\* validate_lens_inputs._to_float: the coerced value (None when coercion
\* fails), the flags it appends, and the exception float(x) lets through
to_float(x, name) ==
  IF x.k = "none" THEN [v |-> None, fl |-> <<"flag_missing_" \o name>>, exc |-> "none"]
  ELSE LET v == ToFloat(x)
       IN IF v.k \in {"TypeError", "ValueError"}
          THEN [v |-> None, fl |-> <<"flag_non_numeric_" \o name>>, exc |-> "none"]
          ELSE IF IsExc(v) THEN [v |-> None, fl |-> <<>>, exc |-> v.k]
          ELSE IF is_nan(v) THEN [v |-> None, fl |-> <<"flag_nan_" \o name>>, exc |-> "none"]
          ELSE IF is_inf(v) THEN [v |-> None, fl |-> <<"flag_inf_" \o name>>, exc |-> "none"]
          ELSE [v |-> v, fl |-> <<>>, exc |-> "none"]

\* a value that was coerced (is not None)
Present(v) == v.k # "none"

\* cross-field checks that compare a field that failed coercion as 0.0
cross_flags_cascading(th, zl, zs, require_zs) ==
  LET val(v) == IF Present(v) THEN v ELSE Zero
  IN (IF FLe(val(th), Zero) THEN <<"flag_thetaE_nonpositive">> ELSE <<>>)
     \o (IF FLt(val(zl), Zero) THEN <<"flag_zl_negative">> ELSE <<>>)
     \o (IF FLt(val(zs), Zero) THEN <<"flag_zs_negative">> ELSE <<>>)
     \o (IF ~FGt(val(zs), val(zl)) THEN <<"flag_zs_le_zl">> ELSE <<>>)

\* cross-field checks that look at z_s only when it is required
cross_flags_required_only(th, zl, zs, require_zs) ==
  (IF Present(th) /\ FLe(th, Zero) THEN <<"flag_thetaE_nonpositive">> ELSE <<>>)
  \o (IF Present(zl) /\ FLt(zl, Zero) THEN <<"flag_zl_negative">> ELSE <<>>)
  \o (IF require_zs
      THEN (IF Present(zs) /\ FLt(zs, Zero) THEN <<"flag_zs_negative">> ELSE <<>>)
           \o (IF Present(zs) /\ Present(zl) /\ ~FGt(zs, zl)
               THEN <<"flag_zs_le_zl">> ELSE <<>>)
      ELSE <<>>)

\* cross-field checks that compare the two redshifts before they test the
\* sign of z_s
cross_flags_redshifts_first(th, zl, zs, require_zs) ==
  (IF Present(th) /\ FLe(th, Zero) THEN <<"flag_thetaE_nonpositive">> ELSE <<>>)
  \o (IF Present(zl) /\ FLt(zl, Zero) THEN <<"flag_zl_negative">> ELSE <<>>)
  \o (IF Present(zs) /\ Present(zl) /\ ~FGt(zs, zl)
      THEN <<"flag_zs_le_zl">> ELSE <<>>)
  \o (IF Present(zs) /\ FLt(zs, Zero) THEN <<"flag_zs_negative">> ELSE <<>>)

\* the cross-field checks of validate_lens_inputs, in the order they run
cross_flags(th, zl, zs, require_zs) ==
  (IF Present(th) /\ FLe(th, Zero) THEN <<"flag_thetaE_nonpositive">> ELSE <<>>)
  \o (IF Present(zl) /\ FLt(zl, Zero) THEN <<"flag_zl_negative">> ELSE <<>>)
  \o (IF require_zs
      THEN (IF Present(zs) /\ FLt(zs, Zero) THEN <<"flag_zs_negative">> ELSE <<>>)
           \o (IF Present(zs) /\ Present(zl) /\ ~FGt(zs, zl)
               THEN <<"flag_zs_le_zl">> ELSE <<>>)
      ELSE IF Present(zs)
           THEN (IF FLt(zs, Zero) THEN <<"flag_zs_negative">> ELSE <<>>)
                \o (IF Present(zl) /\ ~FGt(zs, zl)
                    THEN <<"flag_zs_le_zl">> ELSE <<>>)
           ELSE <<>>)

\* a normalized mapping that always carries the key z_s
normalized_of_with_zs(th, zl, zs) ==
  [theta_E_arcsec |-> th, z_l |-> zl, z_s |-> zs]

\* the normalized mapping: keys theta_E_arcsec, z_l and, if coerced, z_s
normalized_of(th, zl, zs) ==
  IF Present(zs) THEN [theta_E_arcsec |-> th, z_l |-> zl, z_s |-> zs]
  ELSE [theta_E_arcsec |-> th, z_l |-> zl]

\* validate_lens_inputs taking is_valid = (len(flags) == 0) in either mode
validate_strict_only(theta_E_arcsec, z_l, z_s, require_zs, strict) ==
  LET c_th == to_float(theta_E_arcsec, "thetaE")
      c_zl == to_float(z_l, "zl")
      c_zs == IF require_zs \/ z_s.k # "none" THEN to_float(z_s, "zs")
              ELSE [v |-> None, fl |-> <<>>, exc |-> "none"]
      exc == IF c_th.exc # "none" THEN c_th.exc
             ELSE IF c_zl.exc # "none" THEN c_zl.exc
             ELSE c_zs.exc
      flags == c_th.fl \o c_zl.fl \o c_zs.fl
               \o cross_flags(c_th.v, c_zl.v, c_zs.v, require_zs)
      is_valid == Len(flags) = 0
  IN IF exc # "none"
     THEN [exc |-> exc, is_valid |-> FALSE, flags |-> <<>>, normalized |-> <<>>]
     ELSE [exc |-> "none", is_valid |-> is_valid, flags |-> flags,
           normalized |-> IF is_valid THEN normalized_of(c_th.v, c_zl.v, c_zs.v)
                          ELSE <<>>]

\* validate_lens_inputs coercing z_s whether it is required or not
validate_coercing_zs(theta_E_arcsec, z_l, z_s, require_zs, strict) ==
  LET c_th == to_float(theta_E_arcsec, "thetaE")
      c_zl == to_float(z_l, "zl")
      c_zs == to_float(z_s, "zs")
      exc == IF c_th.exc # "none" THEN c_th.exc
             ELSE IF c_zl.exc # "none" THEN c_zl.exc
             ELSE c_zs.exc
      flags == c_th.fl \o c_zl.fl \o c_zs.fl
               \o cross_flags(c_th.v, c_zl.v, c_zs.v, require_zs)
      is_valid == IF strict THEN Len(flags) = 0 ELSE TRUE
  IN IF exc # "none"
     THEN [exc |-> exc, is_valid |-> FALSE, flags |-> <<>>, normalized |-> <<>>]
     ELSE [exc |-> "none", is_valid |-> is_valid, flags |-> flags,
           normalized |-> IF is_valid THEN normalized_of(c_th.v, c_zl.v, c_zs.v)
                          ELSE <<>>]

\* validate_lens_inputs; exc is the exception it raises, "none" if it returns
validate_lens_inputs(theta_E_arcsec, z_l, z_s, require_zs, strict) ==
  LET c_th == to_float(theta_E_arcsec, "thetaE")
      c_zl == to_float(z_l, "zl")
      c_zs == IF require_zs \/ z_s.k # "none" THEN to_float(z_s, "zs")
              ELSE [v |-> None, fl |-> <<>>, exc |-> "none"]
      exc == IF c_th.exc # "none" THEN c_th.exc
             ELSE IF c_zl.exc # "none" THEN c_zl.exc
             ELSE c_zs.exc
      flags == c_th.fl \o c_zl.fl \o c_zs.fl
               \o cross_flags(c_th.v, c_zl.v, c_zs.v, require_zs)
      is_valid == IF strict THEN Len(flags) = 0 ELSE TRUE
  IN IF exc # "none"
     THEN [exc |-> exc, is_valid |-> FALSE, flags |-> <<>>, normalized |-> <<>>]
     ELSE [exc |-> "none", is_valid |-> is_valid, flags |-> flags,
           normalized |-> IF is_valid THEN normalized_of(c_th.v, c_zl.v, c_zs.v)
                          ELSE <<>>]

\* ------------------------------------------------------------------------
\* sensitivity.py

\* ARCSEC_TO_RAD = (math.pi / 180.0) / 3600.0
ARCSEC_TO_RAD == FDiv(FALSE, FDiv(FALSE, PI, FromInt(180)), FromInt(3600))

\* _is_finite
is_finite(x) == x.k # "none" /\ ~is_nan(x) /\ ~is_inf(x)

\* the test "(not _is_finite(x)) or x <= 0.0" applied to D_l, Sigma, M_inf
\* and to the sigma of ln_sigma
not_finite_positive(x) == ~is_finite(x) \/ FLe(x, Zero)

\* compute_sensitivity returns out, or raises
Returned(out) == [status |-> "returned", exc |-> "none", out |-> out]
Raised(t, out) == [status |-> "raised", exc |-> t, out |-> out]

\* out['flags'] = flags; return out
Fail(out, flags) == Returned([out EXCEPT !.flags = flags])

\* the out dict as first built
out_init(theta_E_arcsec, z_l, z_s) ==
  [is_valid |-> FALSE, flags |-> <<>>,
   theta_E_arcsec |-> theta_E_arcsec, z_l |-> z_l, z_s |-> z_s,
   theta_E_rad |-> NaN, D_l_m |-> NaN, Sigma_crit_kg_m2 |-> NaN,
   M_inf_kg |-> NaN, S_dlnM_dzs |-> NaN, dM_over_M_for_delta_z |-> NaN]

\* ln_sigma of compute_sensitivity, once s = cosmo.sigma_crit(zl, zv)
ln_of(s) ==
  IF IsExc(s) THEN s
  ELSE IF not_finite_positive(s) THEN NaN
  ELSE FLog(s)

\* ln_sigma of compute_sensitivity
ln_sigma(cosmo, np, zl, zv) == ln_of(sigma_crit(cosmo, np, zl, zv))

\* variant of finish that rejects S <= 0 along with a non-finite S
finish_positive_S(out, S, flags, th, zl, zs, delta_z) ==
  LET out1 == [out EXCEPT !.S_dlnM_dzs = S]
  IN IF not_finite_positive(S) THEN Fail(out1, <<"flag_nonfinite_S">>)
     ELSE LET dz == ToFloat(delta_z)
          IN IF IsExc(dz) THEN Raised(dz.k, out1)
             ELSE Returned([out1 EXCEPT !.dM_over_M_for_delta_z = FMul(S, dz),
                                        !.is_valid = TRUE,
                                        !.flags = flags,
                                        !.theta_E_arcsec = th,
                                        !.z_l = zl,
                                        !.z_s = zs])

\* the tail of compute_sensitivity once S is known: store S, check it,
\* map it to dM/M and return the valid record
finish(out, S, flags, th, zl, zs, delta_z) ==
  IF ~is_finite(S) THEN Fail([out EXCEPT !.S_dlnM_dzs = S], <<"flag_nonfinite_S">>)
  ELSE IF IsExc(ToFloat(delta_z))
       THEN Raised(ToFloat(delta_z).k, [out EXCEPT !.S_dlnM_dzs = S])
  ELSE Returned([out EXCEPT !.S_dlnM_dzs = S,
                            !.dM_over_M_for_delta_z = FMul(S, ToFloat(delta_z)),
                            !.is_valid = TRUE,
                            !.flags = flags,
                            !.theta_E_arcsec = th,
                            !.z_l = zl,
                            !.z_s = zs])

\* the one-sided fallback once the three log terms are known (each is
\* evaluated only when the code reaches it)
one_sided_of(out, th, zl, zs, hf, delta_z, ln_s0, ln_sp, ln_sm) ==
  IF IsExc(ln_s0) THEN Raised(ln_s0.k, out)
  ELSE IF ~is_finite(ln_s0) THEN Fail(out, <<"flag_nonfinite_lnSigma_at_zs">>)
  ELSE IF IsExc(ln_sp) THEN Raised(ln_sp.k, out)
  ELSE IF is_finite(ln_sp)
       THEN finish(out, FDiv(FALSE, FSub(ln_sp, ln_s0), hf),
                   <<"flag_used_forward_diff">>, th, zl, zs, delta_z)
  ELSE IF IsExc(ln_sm) THEN Raised(ln_sm.k, out)
  ELSE IF is_finite(ln_sm)
       THEN finish(out, FDiv(FALSE, FSub(ln_s0, ln_sm), hf),
                   <<"flag_used_backward_diff">>, th, zl, zs, delta_z)
  ELSE Fail(out, <<"flag_nonfinite_S">>)

\* variant of one_sided whose forward branch tests ln_sm instead of ln_sp
one_sided_tests_minus(out, cosmo, np, th, zl, zs, hf, delta_z, z_minus, z_plus) ==
  LET ln_s0 == ln_sigma(cosmo, np, zl, zs)
      ln_sp == ln_sigma(cosmo, np, zl, z_plus)
      ln_sm == ln_sigma(cosmo, np, zl, z_minus)
  IN IF IsExc(ln_s0) THEN Raised(ln_s0.k, out)
     ELSE IF ~is_finite(ln_s0) THEN Fail(out, <<"flag_nonfinite_lnSigma_at_zs">>)
     ELSE IF IsExc(ln_sm) THEN Raised(ln_sm.k, out)
     ELSE IF is_finite(ln_sm)
          THEN finish(out, FDiv(FALSE, FSub(ln_sp, ln_s0), hf),
                      <<"flag_used_forward_diff">>, th, zl, zs, delta_z)
     ELSE Fail(out, <<"flag_nonfinite_S">>)

\* variant of one_sided that records the forward flag before testing ln_sp
one_sided_keeps_forward_flag(out, cosmo, np, th, zl, zs, hf, delta_z, z_minus, z_plus) ==
  LET ln_s0 == ln_sigma(cosmo, np, zl, zs)
      ln_sp == ln_sigma(cosmo, np, zl, z_plus)
      ln_sm == ln_sigma(cosmo, np, zl, z_minus)
  IN IF IsExc(ln_s0) THEN Raised(ln_s0.k, out)
     ELSE IF ~is_finite(ln_s0) THEN Fail(out, <<"flag_nonfinite_lnSigma_at_zs">>)
     ELSE IF IsExc(ln_sp) THEN Raised(ln_sp.k, out)
     ELSE IF is_finite(ln_sp)
          THEN finish(out, FDiv(FALSE, FSub(ln_sp, ln_s0), hf),
                      <<"flag_used_forward_diff">>, th, zl, zs, delta_z)
     ELSE IF IsExc(ln_sm) THEN Raised(ln_sm.k, out)
     ELSE IF is_finite(ln_sm)
          THEN finish(out, FDiv(FALSE, FSub(ln_s0, ln_sm), hf),
                      <<"flag_used_forward_diff", "flag_used_backward_diff">>,
                      th, zl, zs, delta_z)
     ELSE Fail(out, <<"flag_nonfinite_S">>)

\* variant of one_sided that takes its base term at z_minus instead of z_s
one_sided_from_z_minus(out, cosmo, np, th, zl, zs, hf, delta_z, z_minus, z_plus) ==
  one_sided_of(out, th, zl, zs, hf, delta_z,
               ln_sigma(cosmo, np, zl, z_minus),
               ln_sigma(cosmo, np, zl, z_plus),
               ln_sigma(cosmo, np, zl, z_minus))

\* the one-sided fallback of the finite difference (the else branch)
one_sided(out, cosmo, np, th, zl, zs, hf, delta_z, z_minus, z_plus) ==
  one_sided_of(out, th, zl, zs, hf, delta_z,
               ln_sigma(cosmo, np, zl, zs),
               ln_sigma(cosmo, np, zl, z_plus),
               ln_sigma(cosmo, np, zl, z_minus))

\* the central difference once ln_sp and ln_sm are known, else the fallback
central_of(out, cosmo, np, th, zl, zs, hf, delta_z, z_minus, z_plus, ln_sp, ln_sm) ==
  IF IsExc(ln_sp) THEN Raised(ln_sp.k, out)
  ELSE IF IsExc(ln_sm) THEN Raised(ln_sm.k, out)
  ELSE IF is_finite(ln_sp) /\ is_finite(ln_sm)
       THEN finish(out, FDiv(FALSE, FSub(ln_sp, ln_sm), FMul(FromInt(2), hf)),
                   <<>>, th, zl, zs, delta_z)
  ELSE one_sided(out, cosmo, np, th, zl, zs, hf, delta_z, z_minus, z_plus)

\* variant of finite_difference whose central quotient divides by h
finite_difference_by_h(out, cosmo, np, th, zl, zs, hf, delta_z) ==
  LET z_minus == FSub(zs, hf)
      z_plus == FAdd(zs, hf)
      ln_sp == ln_sigma(cosmo, np, zl, z_plus)
      ln_sm == ln_sigma(cosmo, np, zl, z_minus)
  IN IF IsExc(ln_sp) THEN Raised(ln_sp.k, out)
     ELSE IF IsExc(ln_sm) THEN Raised(ln_sm.k, out)
     ELSE IF is_finite(ln_sp) /\ is_finite(ln_sm)
          THEN finish(out, FDiv(FALSE, FSub(ln_sp, ln_sm), hf),
                      <<>>, th, zl, zs, delta_z)
     ELSE one_sided(out, cosmo, np, th, zl, zs, hf, delta_z, z_minus, z_plus)

\* variant of finite_difference that differentiates ln M_inf, computed at
\* the shifted source redshift from the stored D_l and theta_E_rad
ln_mass(out, cosmo, np, zl, zv) ==
  LET s == sigma_crit(cosmo, np, zl, zv)
      R == FMul(out.D_l_m, out.theta_E_rad)
  IN IF IsExc(s) THEN s
     ELSE IF not_finite_positive(s) THEN NaN
     ELSE FLog(FMul(FMul(PI, FMul(R, R)), s))
finite_difference_of_mass(out, cosmo, np, th, zl, zs, hf, delta_z) ==
  LET z_minus == FSub(zs, hf)
      z_plus == FAdd(zs, hf)
      ln_sp == ln_mass(out, cosmo, np, zl, z_plus)
      ln_sm == ln_mass(out, cosmo, np, zl, z_minus)
  IN IF IsExc(ln_sp) THEN Raised(ln_sp.k, out)
     ELSE IF IsExc(ln_sm) THEN Raised(ln_sm.k, out)
     ELSE IF is_finite(ln_sp) /\ is_finite(ln_sm)
          THEN finish(out, FDiv(FALSE, FSub(ln_sp, ln_sm), FMul(FromInt(2), hf)),
                      <<>>, th, zl, zs, delta_z)
     ELSE one_sided(out, cosmo, np, th, zl, zs, hf, delta_z, z_minus, z_plus)

\* the finite-difference stage: z_minus = zs - h, z_plus = zs + h, the two
\* log terms, and the central difference first
finite_difference(out, cosmo, np, th, zl, zs, hf, delta_z) ==
  central_of(out, cosmo, np, th, zl, zs, hf, delta_z,
             FSub(zs, hf), FAdd(zs, hf),
             ln_sigma(cosmo, np, zl, FAdd(zs, hf)),
             ln_sigma(cosmo, np, zl, FSub(zs, hf)))

\* the check of M_inf, stored in out before it is checked
mass_check(out, cosmo, np, th, zl, zs, hf, delta_z, M_inf) ==
  IF IsExc(M_inf) THEN Raised(M_inf.k, out)
  ELSE IF not_finite_positive(M_inf)
       THEN Fail([out EXCEPT !.M_inf_kg = M_inf], <<"flag_nonfinite_M_inf">>)
  ELSE finite_difference([out EXCEPT !.M_inf_kg = M_inf],
                         cosmo, np, th, zl, zs, hf, delta_z)

\* M_inf = pi (D_l theta)^2 Sigma.  D_l > 0 here, so in the numpy build D_l
\* is a numpy float64 and R ** 2 overflows to inf; in the pure-Python build
\* R ** 2 raises OverflowError.
mass(out, cosmo, np, th, zl, zs, hf, delta_z, theta_rad, D_l, Sigma) ==
  mass_check(out, cosmo, np, th, zl, zs, hf, delta_z,
             FMul(FMul(PI, FPow(np, FMul(D_l, theta_rad), 2)), Sigma))

\* theta_rad, D_l and Sigma are stored in out, then D_l and Sigma checked
core_checks(out, cosmo, np, th, zl, zs, hf, delta_z, theta_rad, D_l, Sigma) ==
  IF IsExc(D_l) THEN Raised(D_l.k, [out EXCEPT !.theta_E_rad = theta_rad])
  ELSE IF IsExc(Sigma)
       THEN Raised(Sigma.k, [out EXCEPT !.theta_E_rad = theta_rad,
                                        !.D_l_m = D_l])
  ELSE IF not_finite_positive(D_l)
       THEN Fail([out EXCEPT !.theta_E_rad = theta_rad, !.D_l_m = D_l,
                             !.Sigma_crit_kg_m2 = Sigma],
                 <<"flag_nonfinite_D_l">>)
  ELSE IF not_finite_positive(Sigma)
       THEN Fail([out EXCEPT !.theta_E_rad = theta_rad, !.D_l_m = D_l,
                             !.Sigma_crit_kg_m2 = Sigma],
                 <<"flag_nonfinite_Sigma_crit">>)
  ELSE mass([out EXCEPT !.theta_E_rad = theta_rad, !.D_l_m = D_l,
                        !.Sigma_crit_kg_m2 = Sigma],
            cosmo, np, th, zl, zs, hf, delta_z, theta_rad, D_l, Sigma)

\* theta_rad, D_l, Sigma
core_quantities(out, cosmo, np, th, zl, zs, hf, delta_z) ==
  core_checks(out, cosmo, np, th, zl, zs, hf, delta_z,
              FMul(th, ARCSEC_TO_RAD),
              angular_diameter_distance(cosmo, np, zl),
              sigma_crit(cosmo, np, zl, zs))

\* the step-size check "h is None or float(h) <= 0.0"
step_check(out, cosmo, np, th, zl, zs, h, delta_z) ==
  IF h.k = "none" THEN Fail(out, <<"flag_invalid_h">>)
  ELSE IF IsExc(ToFloat(h)) THEN Raised(ToFloat(h).k, out)
  ELSE IF FLe(ToFloat(h), Zero) THEN Fail(out, <<"flag_invalid_h">>)
  ELSE core_quantities(out, cosmo, np, th, zl, zs, ToFloat(h), delta_z)

\* compute_sensitivity once v = validate_lens_inputs(...) is known
validated(out, v, cosmo, np, h, delta_z) ==
  IF v.exc # "none" THEN Raised(v.exc, out)
  ELSE IF ~v.is_valid THEN Fail(out, v.flags)
  ELSE step_check(out, cosmo, np, v.normalized.theta_E_arcsec,
                  v.normalized.z_l, v.normalized.z_s, h, delta_z)

\* compute_sensitivity
compute_sensitivity(theta_E_arcsec, z_l, z_s, cosmo, np, h, delta_z) ==
  validated(out_init(theta_E_arcsec, z_l, z_s),
            validate_lens_inputs(theta_E_arcsec, z_l, z_s, TRUE, TRUE),
            cosmo, np, h, delta_z)

\* ------------------------------------------------------------------------
\* One call of compute_sensitivity on one catalog row.

\* quadrature resolution handed to the FlatLambdaCDM constructor
NInt == 2

VARIABLES
  np,      \* TRUE iff "import numpy" succeeded when cosmology.py was loaded
  cosmo,   \* the FlatLambdaCDM instance of the run
  args,    \* the arguments of the call
  pc,      \* "call" before compute_sensitivity runs, "done" after
  result   \* what the call produced: a returned out dict or an exception

vars == <<np, cosmo, args, pc, result>>

\* values a catalog row and the run configuration can hold
Tiny == Round(1, -200)
Huge == Round(1, 100)
ThetaInputs == {None, Str, BigInt, NaN, PInf, Zero,
                Tiny, FRat(1, 2), FRat(12, 10), Huge}
ZlInputs == {None, NaN, FRat(-1, 2), Zero, Round(1, -230),
             FRat(3, 10), Round(3019, -12), FRat(8, 10)}
ZsInputs == {None, PInf, FRat(-7, 10), Round(1, -229),
             Round(3020, -12), Round(3021, -12), FRat(8, 10),
             FRat(11, 10), Huge}
HInputs == {None, Str, NaN, PInf, Zero, Round(1, -12), Round(1, -11),
            FRat(1, 1000), FromInt(1)}
DeltaZInputs == {NaN, PInf, FRat(1, 10)}

\* every lens with the default horizon delta_z = 0.1, and a reference lens
\* with every horizon
ArgInputs ==
  [theta_E_arcsec : ThetaInputs, z_l : ZlInputs, z_s : ZsInputs,
   h : HInputs, delta_z : {FRat(1, 10)}]
  \cup
  [theta_E_arcsec : {FRat(1, 2), FRat(12, 10)}, z_l : {FRat(3, 10)},
   z_s : {FRat(11, 10)}, h : {FRat(1, 1000), FromInt(1)},
   delta_z : DeltaZInputs]

NoResult == Raised("none", out_init(None, None, None))

Init ==
  /\ np \in BOOLEAN
  /\ cosmo = FlatLambdaCDM(FromInt(70), FRat(3, 10), None, NInt)
  /\ args \in ArgInputs
  /\ pc = "call"
  /\ result = NoResult

\* the call runs to its return or to the exception it raises
Call ==
  /\ pc = "call"
  /\ result' = compute_sensitivity(args.theta_E_arcsec, args.z_l, args.z_s,
                                   cosmo, np, args.h, args.delta_z)
  /\ pc' = "done"
  /\ UNCHANGED <<np, cosmo, args>>

Next == Call

Spec == Init /\ [][Next]_vars

\* ------------------------------------------------------------------------
\* Properties of the returned record.

Done == pc = "done"
DidReturn == Done /\ result.status = "returned"
Out == result.out

\* the raw validation compute_sensitivity delegates to
V == validate_lens_inputs(args.theta_E_arcsec, args.z_l, args.z_s, TRUE, TRUE)
Validated == V.exc = "none" /\ V.is_valid
Th == V.normalized.theta_E_arcsec
Zl == V.normalized.z_l
Zs == V.normalized.z_s

\* the step as a float, and "h is present and > 0"
Hf == ToFloat(args.h)
HPositive == IsFloat(args.h) /\ FGt(args.h, Zero)

FinV(x) == x.k = "fin"
FinPos(x) == x.k = "fin" /\ x.m > 0

\* the quantities of the stages, evaluated on the validated inputs
DlV == angular_diameter_distance(cosmo, np, Zl)
SigV == sigma_crit(cosmo, np, Zl, Zs)
R2V == FPow(np, FMul(DlV, FMul(Th, ARCSEC_TO_RAD)), 2)
MV == FMul(FMul(PI, R2V), SigV)
StagesOK == FinPos(DlV) /\ FinPos(SigV) /\ FinPos(MV)

\* the three log terms and the three difference quotients
ZPlus == FAdd(Zs, Hf)
ZMinus == FSub(Zs, Hf)
LnP == ln_sigma(cosmo, np, Zl, ZPlus)
LnM == ln_sigma(cosmo, np, Zl, ZMinus)
Ln0 == ln_sigma(cosmo, np, Zl, Zs)
CentralS == FDiv(FALSE, FSub(LnP, LnM), FMul(FromInt(2), Hf))
ForwardS == FDiv(FALSE, FSub(LnP, Ln0), Hf)
BackwardS == FDiv(FALSE, FSub(Ln0, LnM), Hf)

FwdFlag == "flag_used_forward_diff"
BwdFlag == "flag_used_backward_diff"
HasFlag(f) == \E i \in 1..Len(Out.flags) : Out.flags[i] = f

\* the call got as far as the finite-difference stage: M_inf was stored
\* and passed its check
ReachedDiff == DidReturn /\ FinPos(Out.M_inf_kg)

\* C1: a returned record has is_valid = true if and only if theta_E_rad,
\* D_l_m, Sigma_crit_kg_m2, M_inf_kg, S_dlnM_dzs and dM_over_M_for_delta_z
\* are all finite and M_inf_kg, Sigma_crit_kg_m2, D_l_m are > 0.
C1_ValidIffFinitePositive ==
  DidReturn =>
    (Out.is_valid <=>
       /\ FinV(Out.theta_E_rad) /\ FinV(Out.S_dlnM_dzs)
       /\ FinV(Out.dM_over_M_for_delta_z)
       /\ FinPos(Out.D_l_m) /\ FinPos(Out.Sigma_crit_kg_m2)
       /\ FinPos(Out.M_inf_kg))

ListedKinds == {"none", "str", "nan", "inf", "fin"}

\* C2: for theta_E, z_l, z_s each missing, non-numeric, NaN, infinite or a
\* finite number, and h > 0 (delta_z a number), the call returns a record
\* and never raises; when validation detects a problem, the record has
\* is_valid = false and a non-empty flags list.
C2_NeverRaises ==
  (/\ Done
   /\ args.theta_E_arcsec.k \in ListedKinds
   /\ args.z_l.k \in ListedKinds
   /\ args.z_s.k \in ListedKinds
   /\ HPositive
   /\ IsFloat(args.delta_z))
  => /\ result.status = "returned"
     /\ (V.flags # <<>> => ~Out.is_valid /\ Out.flags # <<>>)

\* C3: a failed call carries the flags of the first failing stage only, in
\* the order validation, h, D_l, Sigma_crit, M_inf, S: the validator's
\* flags verbatim, or the single flag of the later stage (the h stage
\* fails when h is absent or not > 0).
C3_FirstFailingStageFlags ==
  (DidReturn /\ ~Out.is_valid) =>
    IF ~V.is_valid THEN Out.flags = V.flags
    ELSE IF args.h.k = "none" \/ ~FGt(Hf, Zero)
         THEN Out.flags = <<"flag_invalid_h">>
    ELSE IF ~FinPos(DlV) THEN Out.flags = <<"flag_nonfinite_D_l">>
    ELSE IF ~FinPos(SigV) THEN Out.flags = <<"flag_nonfinite_Sigma_crit">>
    ELSE IF ~FinPos(MV) THEN Out.flags = <<"flag_nonfinite_M_inf">>
    ELSE Out.flags \in {<<"flag_nonfinite_lnSigma_at_zs">>, <<"flag_nonfinite_S">>}

\* C4: the finite-difference stage follows the ladder central, forward,
\* backward, failure.  S is the central difference, with no fallback flag,
\* exactly when both log terms are finite; otherwise an undefined
\* lnSigma(z_s) fails with nonfinite_lnSigma_at_zs; otherwise S is the
\* forward difference flagged used_forward_diff if lnSigma(z_s+h) is
\* finite; otherwise the backward difference flagged used_backward_diff if
\* lnSigma(z_s-h) is finite; otherwise the stage fails with nonfinite_S.
C4_Ladder ==
  ReachedDiff =>
    IF FinV(LnP) /\ FinV(LnM)
    THEN Out.S_dlnM_dzs = CentralS /\ ~HasFlag(FwdFlag) /\ ~HasFlag(BwdFlag)
    ELSE /\ ~(Out.is_valid /\ Out.flags = <<>>)
         /\ IF ~FinV(Ln0)
            THEN ~Out.is_valid /\ Out.flags = <<"flag_nonfinite_lnSigma_at_zs">>
            ELSE IF FinV(LnP)
               THEN Out.S_dlnM_dzs = ForwardS /\ Out.flags = <<FwdFlag>>
            ELSE IF FinV(LnM)
               THEN Out.S_dlnM_dzs = BackwardS /\ Out.flags = <<BwdFlag>>
            ELSE ~Out.is_valid /\ Out.flags = <<"flag_nonfinite_S">>

\* the ladder went all the way down to the backward difference
C4_Witness ==
  ReachedDiff /\ ~FinV(LnP) /\ FinV(LnM) /\ Out.is_valid /\ Out.flags = <<BwdFlag>>

NearBoundary == Validated /\ FGt(Zl, Zero) /\ HPositive /\ FLe(ZMinus, Zl)

C6_ValidFlags ==
  (DidReturn /\ Out.is_valid) => Out.flags \in {<<>>, <<FwdFlag>>, <<BwdFlag>>}

C6_Witness == DidReturn /\ Out.is_valid /\ Out.flags = <<BwdFlag>>

\* C7: whenever the call returns is_valid = false, theta_E_rad, D_l_m,
\* Sigma_crit_kg_m2, M_inf_kg and S_dlnM_dzs are all NaN.
C7_InvalidIsNaNFilled ==
  (DidReturn /\ ~Out.is_valid)
  => /\ is_nan(Out.theta_E_rad) /\ is_nan(Out.D_l_m)
     /\ is_nan(Out.Sigma_crit_kg_m2) /\ is_nan(Out.M_inf_kg)
     /\ is_nan(Out.S_dlnM_dzs)

\* C8: for validated raw inputs, an h that is absent or not greater than 0
\* gives is_valid = false with flags exactly [invalid_h]; an h that is
\* present and > 0 never raises invalid_h.  (h is None or a float here.)
C8_InvalidH ==
  (Done /\ Validated /\ (args.h.k = "none" \/ IsFloat(args.h)))
  => IF args.h.k = "none" \/ ~FGt(args.h, Zero)
     THEN DidReturn /\ ~Out.is_valid /\ Out.flags = <<"flag_invalid_h">>
     ELSE ~(DidReturn /\ HasFlag("flag_invalid_h"))

ValidFiniteResult ==
  /\ DidReturn /\ Out.is_valid
  /\ FinPos(Out.D_l_m) /\ FinPos(Out.Sigma_crit_kg_m2) /\ FinPos(Out.M_inf_kg)
  /\ FinV(Out.S_dlnM_dzs) /\ FinV(Out.dM_over_M_for_delta_z)

ExpectedS ==
  IF FinV(LnP) /\ FinV(LnM) THEN CentralS
  ELSE IF FinV(LnP) THEN ForwardS
  ELSE BackwardS

FAbs(x) == IF x.m < 0 THEN FNeg(x) ELSE x
OtherTheta(th2) ==
  compute_sensitivity(th2, args.z_l, args.z_s, cosmo, np, args.h, args.delta_z)

\* C10: two calls that differ only in a positive finite theta_E_arcsec and
\* are both valid return the same S_dlnM_dzs (difference below 1e-6) and
\* the same fallback flag.
C10_SIndependentOfTheta ==
  (DidReturn /\ Out.is_valid) =>
    \A th2 \in ThetaInputs :
      LET other == OtherTheta(th2) IN
        (other.status = "returned" /\ other.out.is_valid)
        => /\ FLt(FAbs(FSub(Out.S_dlnM_dzs, other.out.S_dlnM_dzs)),
                  FRat(1, 1000000))
           /\ other.out.flags = Out.flags

C10_Witness ==
  /\ DidReturn /\ Out.is_valid /\ args.theta_E_arcsec = FRat(1, 2)
  /\ LET other == OtherTheta(FRat(12, 10)) IN
       other.status = "returned" /\ other.out.is_valid

\* ------------------------------------------------------------------------
\* Direct calls of the FlatLambdaCDM methods: one instance is constructed
\* with an integration resolution n_int, and one method is called on it
\* with the redshifts z1 (z, z_l) and z2 (z_s).  Here args holds the two
\* redshifts and result the method called and what it produced: a float,
\* or the exception it raised.

\* values passed as n_int
NIntInputs == {0 - 2, 0 - 1, 0, 1, NInt, NInt + 1}

\* redshifts passed to the methods
ZInputs == {NInf, FRat(-7, 10), FRat(-1, 2), Zero, Round(1, -230),
            Round(1, -229), FRat(3, 10), Round(3019, -12),
            Round(3020, -12), FRat(11, 10), Round(2090, -10),
            Round(2091, -10), Huge, PInf, NaN}

NoValue == [method |-> "none", value |-> None]

CosmoInit ==
  /\ np \in BOOLEAN
  /\ cosmo \in {FlatLambdaCDM(FromInt(70), FRat(3, 10), None, n) :
                  n \in NIntInputs}
  /\ args \in [z1 : ZInputs, z2 : ZInputs]
  /\ pc = "call"
  /\ result = NoValue

\* what the call of a method leaves: its value, the call being over
MethodCall(method, value) ==
  /\ pc = "call"
  /\ result' = [method |-> method, value |-> value]
  /\ pc' = "done"
  /\ UNCHANGED <<np, cosmo, args>>

CallE == MethodCall("E", E(cosmo, np, args.z1))

CallComovingDistance ==
  MethodCall("comoving_distance", comoving_distance(cosmo, np, args.z1))

CallAngularDiameterDistance ==
  MethodCall("angular_diameter_distance",
             angular_diameter_distance(cosmo, np, args.z1))

CallAngularDiameterDistanceZ1Z2 ==
  MethodCall("angular_diameter_distance_z1z2",
             angular_diameter_distance_z1z2(cosmo, np, args.z1, args.z2))

CallSigmaCrit ==
  MethodCall("sigma_crit", sigma_crit(cosmo, np, args.z1, args.z2))

CosmoNext ==
  \/ CallE
  \/ CallComovingDistance
  \/ CallAngularDiameterDistance
  \/ CallAngularDiameterDistanceZ1Z2
  \/ CallSigmaCrit

CosmoSpec == CosmoInit /\ [][CosmoNext]_vars

\* the method m has been called and is over
Called(m) == pc = "done" /\ result.method = m
\* the instance can integrate: n_int is a positive even integer
CanIntegrate == cosmo.n_int > 0 /\ cosmo.n_int % 2 = 0

\* ------------------------------------------------------------------------
\* Properties of the FlatLambdaCDM methods (CosmoSpec).

\* C11: sigma_crit(z_l, z_s) returns NaN, and raises nothing, for every pair
\* of floats with z_s <= z_l: negative redshifts, infinite ones and
\* z_s = z_l included.
C11_SigmaCritNaNUnlessBehind ==
  (Called("sigma_crit") /\ FLe(args.z2, args.z1)) => result.value = NaN

\* sigma_crit(-0.5, -0.7) has returned NaN
C11_Witness ==
  /\ Called("sigma_crit")
  /\ args.z1 = FRat(-1, 2)
  /\ args.z2 = FRat(-7, 10)
  /\ result.value = NaN

\* the three distances of sigma_crit(z1, z2) and the value its last two
\* lines give them
SigmaDl == angular_diameter_distance(cosmo, np, args.z1)
SigmaDs == angular_diameter_distance(cosmo, np, args.z2)
SigmaDls == angular_diameter_distance_z1z2(cosmo, np, args.z1, args.z2)
SigmaFormula ==
  FMul(FDiv(FALSE, FPow(FALSE, C_LIGHT, 2),
            FMul(FMul(FromInt(4), PI), G_NEWTON)),
       FDiv(np, SigmaDs, FMul(SigmaDl, SigmaDls)))

\* a finite redshift in [0, 10]
BoundedZ(z) == IsFin(z) /\ FLe(Zero, z) /\ FLe(z, FromInt(10))

\* C12: for every pair of bounded redshifts with z_l >= 0, z_s >= 0 and
\* z_s > z_l, sigma_crit(z_l, z_s) is finite and strictly positive and
\* equals c^2/(4 pi G) * D_s/(D_l * D_ls).
C12_SigmaCritPositive ==
  (Called("sigma_crit") /\ CanIntegrate /\ BoundedZ(args.z1)
   /\ BoundedZ(args.z2) /\ FGt(args.z2, args.z1))
  => (FinPos(result.value) /\ result.value = SigmaFormula)

\* C13: for every pair of floats with z2 <= z1,
\* angular_diameter_distance_z1z2(z1, z2) returns NaN and raises nothing.
C13_Z1Z2NaNUnlessBehind ==
  (Called("angular_diameter_distance_z1z2") /\ FLe(args.z2, args.z1))
  => result.value = NaN

\* the two comoving distances of angular_diameter_distance_z1z2(z1, z2)
Dc1 == comoving_distance(cosmo, np, args.z1)
Dc2 == comoving_distance(cosmo, np, args.z2)

\* C14: for all bounded 0 <= z1 < z2, angular_diameter_distance_z1z2(z1, z2)
\* equals (D_C(z2) - D_C(z1))/(1 + z2) and is finite and > 0, and the
\* reversed call, with the larger redshift first, yields NaN.
C14_Z1Z2PositiveReversedNaN ==
  (Called("angular_diameter_distance_z1z2") /\ CanIntegrate
   /\ BoundedZ(args.z1) /\ BoundedZ(args.z2))
  => /\ FLt(args.z1, args.z2)
        => /\ result.value = FDiv(np, FSub(Dc2, Dc1), FAdd(One, args.z2))
           /\ FinPos(result.value)
     /\ FLt(args.z2, args.z1) => result.value = NaN

\* C15: comoving_distance(z) and angular_diameter_distance(z) raise the
\* domain error (ValueError) for every z < 0 and so return no value, and
\* comoving_distance(0) returns exactly 0 without integrating: it does so
\* on an instance whose n_int cannot integrate as well.
C15_NegativeRaisesZeroIsZero ==
  /\ ((Called("comoving_distance") \/ Called("angular_diameter_distance"))
      /\ FLt(args.z1, Zero))
     => result.value = Exc("ValueError")
  /\ (Called("comoving_distance") /\ args.z1 = Zero) => result.value = Zero

\* comoving_distance(-0.5) has raised ValueError
C15_Witness ==
  /\ Called("comoving_distance")
  /\ args.z1 = FRat(-1, 2)
  /\ result.value = Exc("ValueError")

\* C16: for every integer n given to the constructor the stored n_int is
\* a positive even integer, n itself when n is even and n + 1 when n is
\* odd, so that no comoving_distance(z) call with z > 0 fails for want of
\* an integration resolution.
C16_NIntPositiveEven ==
  \A n \in NIntInputs :
    cosmo = FlatLambdaCDM(FromInt(70), FRat(3, 10), None, n)
    => /\ cosmo.n_int = (IF n % 2 = 0 THEN n ELSE n + 1)
       /\ cosmo.n_int > 0
       /\ cosmo.n_int % 2 = 0
       /\ (Called("comoving_distance") /\ BoundedZ(args.z1)
           /\ FGt(args.z1, Zero))
          => result.value # Exc("ValueError")

\* ------------------------------------------------------------------------
\* Concurrent method calls on one shared FlatLambdaCDM instance.  Each
\* thread makes one call; a call advances by the calls it makes on self,
\* each of which reads the attributes of the instance as they are at that
\* moment, and threads interleave between these steps (the conversions
\* and tests on entry read only the arguments and go with the step that
\* follows them).  Here args, pc and
\* result are indexed by thread: args[t] is the call of thread t, pc[t]
\* where it stands, result[t] the values its sub-calls returned so far
\* (locals) and what the call produced (value).

NThreads == 2
Threads == 1..NThreads

\* the instance the threads share
Shared == FlatLambdaCDM(FromInt(70), FRat(3, 10), None, NInt)

MethodOn(method, z1, z2) == [method |-> method, z1 |-> z1, z2 |-> z2]

\* the calls a thread may make
CallInputs ==
  {MethodOn("E", FRat(3, 10), None),
   MethodOn("comoving_distance", FRat(11, 10), None),
   MethodOn("angular_diameter_distance", FRat(3, 10), None),
   MethodOn("angular_diameter_distance_z1z2", FRat(3, 10), FRat(11, 10)),
   MethodOn("sigma_crit", FRat(3, 10), FRat(11, 10)),
   MethodOn("sigma_crit", FRat(11, 10), FRat(3, 10))}

\* the call c run from its first line to its last on the instance self,
\* in the build with numpy or in the one without
Invoke(self, numpy, c) ==
  CASE c.method = "E" -> E(self, numpy, c.z1)
    [] c.method = "comoving_distance" ->
         comoving_distance(self, numpy, c.z1)
    [] c.method = "angular_diameter_distance" ->
         angular_diameter_distance(self, numpy, c.z1)
    [] c.method = "angular_diameter_distance_z1z2" ->
         angular_diameter_distance_z1z2(self, numpy, c.z1, c.z2)
    [] c.method = "sigma_crit" -> sigma_crit(self, numpy, c.z1, c.z2)

\* what the method returns or raises before it calls anything on self,
\* None when it goes on
Early(c) ==
  CASE c.method = "angular_diameter_distance" ->
         IF FLt(c.z1, Zero) THEN Exc("ValueError") ELSE None
    [] c.method = "angular_diameter_distance_z1z2" ->
         IF FLt(c.z1, Zero) \/ FLt(c.z2, Zero) THEN Exc("ValueError")
         ELSE IF FLe(c.z2, c.z1) THEN NaN
         ELSE None
    [] c.method = "sigma_crit" -> IF FLe(c.z2, c.z1) THEN NaN ELSE None
    [] OTHER -> None

\* the calls on self the method makes, in order; E and comoving_distance
\* read the attributes themselves
SubCalls(c) ==
  CASE c.method = "angular_diameter_distance" ->
         <<MethodOn("comoving_distance", c.z1, None)>>
    [] c.method = "angular_diameter_distance_z1z2" ->
         <<MethodOn("comoving_distance", c.z1, None),
           MethodOn("comoving_distance", c.z2, None)>>
    [] c.method = "sigma_crit" ->
         <<MethodOn("angular_diameter_distance", c.z1, None),
           MethodOn("angular_diameter_distance", c.z2, None),
           MethodOn("angular_diameter_distance_z1z2", c.z1, c.z2)>>
    [] OTHER -> <<>>

\* the last lines of the method, given what its calls on self returned
Final(self, c, locals) ==
  CASE c.method = "angular_diameter_distance" ->
         FDiv(np, locals[1], FAdd(One, c.z1))
    [] c.method = "angular_diameter_distance_z1z2" ->
         FDiv(np, FSub(locals[2], locals[1]), FAdd(One, c.z2))
    [] c.method = "sigma_crit" ->
         sigma_of(np, locals[1], locals[2], locals[3])
    [] OTHER -> Invoke(self, np, c)

\* a method that, each time it is called, changes the resolution held by
\* the instance
instance_after_coarsening(self, c) ==
  [self EXCEPT !.n_int = IF @ > 2 THEN @ - 2 ELSE @ + 2]

\* the instance after a method made a step: no method assigns to self
instance_after(self, c) == self

ThreadInit ==
  /\ np \in BOOLEAN
  /\ cosmo = Shared
  /\ args \in [Threads -> CallInputs]
  /\ pc = [t \in Threads |-> "call"]
  /\ result = [t \in Threads |-> [locals |-> <<>>, value |-> None]]

\* thread t returns or raises at the tests before the first call on self
EarlyReturn(t) ==
  /\ pc[t] = "call"
  /\ Early(args[t]) # None
  /\ result' = [result EXCEPT ![t].value = Early(args[t])]
  /\ pc' = [pc EXCEPT ![t] = "done"]
  /\ UNCHANGED <<np, cosmo, args>>

\* thread t makes its next call on self; an exception of that call ends
\* the method
SubCall(t) ==
  /\ pc[t] \in {"call", "run"}
  /\ Early(args[t]) = None
  /\ Len(result[t].locals) < Len(SubCalls(args[t]))
  /\ LET c == SubCalls(args[t])[Len(result[t].locals) + 1]
         v == Invoke(cosmo, np, c)
     IN /\ cosmo' = instance_after(cosmo, c)
        /\ IF IsExc(v)
           THEN /\ pc' = [pc EXCEPT ![t] = "done"]
                /\ result' = [result EXCEPT ![t].value = v]
           ELSE /\ pc' = [pc EXCEPT ![t] = "run"]
                /\ result' = [result EXCEPT
                                ![t].locals = Append(@, v)]
  /\ UNCHANGED <<np, args>>

\* thread t runs the last lines of its method and returns
Return(t) ==
  /\ pc[t] \in {"call", "run"}
  /\ Early(args[t]) = None
  /\ Len(result[t].locals) = Len(SubCalls(args[t]))
  /\ cosmo' = instance_after(cosmo, args[t])
  /\ result' = [result EXCEPT
                  ![t].value = Final(cosmo, args[t], result[t].locals)]
  /\ pc' = [pc EXCEPT ![t] = "done"]
  /\ UNCHANGED <<np, args>>

ThreadNext ==
  \E t \in Threads : EarlyReturn(t) \/ SubCall(t) \/ Return(t)

ThreadSpec == ThreadInit /\ [][ThreadNext]_vars

\* C17: no method writes the instance, so in every interleaving of the
\* threads' calls on the shared instance the instance stays as it was
\* constructed, each finished call has produced what the same call
\* produces when run alone on that instance, and two finished calls with
\* identical arguments have produced identical results.
C17_CallsDoNotInterfere ==
  /\ cosmo = Shared
  /\ \A t \in Threads :
       pc[t] = "done" => result[t].value = Invoke(Shared, np, args[t])
  /\ \A t, u \in Threads :
       (pc[t] = "done" /\ pc[u] = "done" /\ args[t] = args[u])
       => result[t].value = result[u].value

\* thread 1 finished sigma_crit(0.3, 1.1) after thread 2, with another
\* redshift, got between its calls on self
C17_Witness ==
  /\ args[1] = MethodOn("sigma_crit", FRat(3, 10), FRat(11, 10))
  /\ args[2] = MethodOn("comoving_distance", FRat(11, 10), None)
  /\ pc[1] = "done"
  /\ pc[2] = "done"
  /\ FinPos(result[1].value)
  /\ FinPos(result[2].value)

\* ------------------------------------------------------------------------
\* Direct calls of validate_lens_inputs, with either value of require_zs
\* and of strict.  Here args holds the five arguments and result what the
\* call produced: the returned dict, or the exception it raised.

\* values a raw field can hold
FieldInputs == {None, Str, BigInt, NaN, PInf, NInf, FRat(-1, 2), Zero,
                FRat(3, 10), FRat(8, 10), FRat(11, 10)}

NotValidated ==
  [exc |-> "none", is_valid |-> FALSE, flags |-> <<>>, normalized |-> <<>>]

ValidateInit ==
  /\ np \in BOOLEAN
  /\ cosmo = Shared
  /\ args \in [theta_E_arcsec : FieldInputs, z_l : FieldInputs,
               z_s : FieldInputs, require_zs : BOOLEAN, strict : BOOLEAN]
  /\ pc = "call"
  /\ result = NotValidated

\* the call runs to its return or to the exception float() lets through
Validate ==
  /\ pc = "call"
  /\ result' = validate_lens_inputs(args.theta_E_arcsec, args.z_l, args.z_s,
                                    args.require_zs, args.strict)
  /\ pc' = "done"
  /\ UNCHANGED <<np, cosmo, args>>

ValidateNext == Validate

ValidateSpec == ValidateInit /\ [][ValidateNext]_vars

\* the call has returned its dict
HasValidated == pc = "done" /\ result.exc = "none"
\* the flags a strict call raises for the same fields
StrictFlags ==
  validate_lens_inputs(args.theta_E_arcsec, args.z_l, args.z_s,
                       args.require_zs, TRUE).flags
\* how many times the flag f was raised
Times(f) == Cardinality({i \in 1..Len(result.flags) : result.flags[i] = f})

\* C18: in strict mode is_valid is true exactly when no flag was raised;
\* in non-strict mode is_valid is always true and the flags are the ones
\* strict mode raises for the same inputs.
C18_IsValidByMode ==
  HasValidated
  => /\ args.strict => (result.is_valid <=> result.flags = <<>>)
     /\ ~args.strict => (result.is_valid /\ result.flags = StrictFlags)

\* a non-strict call has returned is_valid = true with a flag recorded
C18_Witness ==
  /\ HasValidated
  /\ ~args.strict
  /\ result.is_valid
  /\ result.flags = <<"flag_zs_le_zl">>

\* the value v is the finite float float(x) gives for the raw field x
CoercionOf(v, x) == IsFloat(ToFloat(x)) /\ v = ToFloat(x) /\ IsFin(v)

\* C19: normalized is non-empty only when is_valid is true, any flag of a
\* strict call leaves it empty, and whenever it is populated it holds
\* theta_E_arcsec and z_l, each the finite float coercion of its input.
C19_NormalizedOnlyWhenValid ==
  HasValidated
  => /\ result.normalized # <<>> => result.is_valid
     /\ (args.strict /\ result.flags # <<>>) => result.normalized = <<>>
     /\ result.normalized # <<>>
        => /\ CoercionOf(result.normalized.theta_E_arcsec,
                         args.theta_E_arcsec)
           /\ CoercionOf(result.normalized.z_l, args.z_l)

\* the three fields: the name the flags use, the raw value, and the
\* cross-field flags raised from a comparison of the field
Fields ==
  {[name |-> "thetaE", raw |-> args.theta_E_arcsec,
    cross |-> {"flag_thetaE_nonpositive"}],
   [name |-> "zl", raw |-> args.z_l,
    cross |-> {"flag_zl_negative", "flag_zs_le_zl"}],
   [name |-> "zs", raw |-> args.z_s,
    cross |-> {"flag_zs_negative", "flag_zs_le_zl"}]}

\* the ways a field fails coercion, and the way the raw value x does
FailKinds == {"missing", "non_numeric", "nan", "inf"}
KindOf(x) ==
  CASE x.k = "none" -> "missing"
    [] x.k = "str" -> "non_numeric"
    [] x.k = "nan" -> "nan"
    [] x.k = "inf" -> "inf"
    [] OTHER -> "numeric"
CoercionFlag(kind, name) == "flag_" \o kind \o "_" \o name

\* coercion flags of the field f: exactly one of kind k (none if k is no
\* failure), and no cross-field flag from a comparison of f
FlaggedAs(f, k) ==
  /\ \A j \in FailKinds :
       Times(CoercionFlag(j, f.name)) = (IF j = k THEN 1 ELSE 0)
  /\ \A c \in f.cross : Times(c) = 0

\* the field is passed to _to_float: theta_E and z_l always, z_s when it
\* is required or supplied
Coerced(f) == f.name # "zs" \/ args.require_zs \/ f.raw # None

Once(cond) == IF cond THEN 1 ELSE 0

\* C21: each cross-field flag is raised exactly when its operands were
\* coerced and its condition holds: thetaE_nonpositive iff theta_E <= 0,
\* zl_negative iff z_l < 0, zs_negative iff z_s < 0 and zs_le_zl iff both
\* redshifts were coerced and z_s <= z_l, the last two whatever require_zs.
C21_CrossFlagsExact ==
  HasValidated
  => /\ Times("flag_thetaE_nonpositive")
          = Once(IsFin(args.theta_E_arcsec)
                 /\ FLe(args.theta_E_arcsec, Zero))
     /\ Times("flag_zl_negative")
          = Once(IsFin(args.z_l) /\ FLt(args.z_l, Zero))
     /\ Times("flag_zs_negative")
          = Once(IsFin(args.z_s) /\ FLt(args.z_s, Zero))
     /\ Times("flag_zs_le_zl")
          = Once(IsFin(args.z_l) /\ IsFin(args.z_s)
                 /\ FLe(args.z_s, args.z_l))

\* a negative z_s that is not required, behind no lens: both flags
C21_Witness ==
  /\ HasValidated
  /\ ~args.require_zs
  /\ args.theta_E_arcsec = FRat(3, 10)
  /\ args.z_l = FRat(3, 10)
  /\ args.z_s = FRat(-1, 2)
  /\ result.flags = <<"flag_zs_negative", "flag_zs_le_zl">>

\* C22: an absent z_s is judged by require_zs: when it is required,
\* missing_zs is raised and a strict result is invalid; when it is not and
\* theta_E and z_l are valid, no flag is raised, the result is valid with
\* flags = [] and normalized holds theta_E_arcsec and z_l and no z_s key.
C22_AbsentZsByRequireZs ==
  (HasValidated /\ args.z_s = None)
  => /\ args.require_zs
        => /\ Times("flag_missing_zs") = 1
           /\ args.strict => ~result.is_valid
     /\ (~args.require_zs /\ FinPos(args.theta_E_arcsec)
         /\ IsFin(args.z_l) /\ FLe(Zero, args.z_l))
        => /\ result.flags = <<>>
           /\ result.is_valid
           /\ result.normalized = [theta_E_arcsec |-> args.theta_E_arcsec,
                                   z_l |-> args.z_l]

\* a strict call without the optional z_s has returned valid, no z_s key
C22_Witness ==
  /\ HasValidated
  /\ args.strict
  /\ ~args.require_zs
  /\ args.z_s = None
  /\ result.is_valid
  /\ DOMAIN result.normalized = {"theta_E_arcsec", "z_l"}

\* C23: whenever normalized is populated it has the key z_s exactly when
\* z_s was supplied and passed coercion (it is a finite float), and the
\* value stored is that float.
C23_ZsKeyIffCoerced ==
  (HasValidated /\ result.normalized # <<>>)
  => /\ "z_s" \in DOMAIN result.normalized <=> IsFin(args.z_s)
     /\ "z_s" \in DOMAIN result.normalized
        => result.normalized.z_s = ToFloat(args.z_s)

\* a non-strict call given z_s = NaN has populated normalized without z_s
C23_Witness ==
  /\ HasValidated
  /\ ~args.strict
  /\ args.z_s = NaN
  /\ DOMAIN result.normalized = {"theta_E_arcsec", "z_l"}

\* ------------------------------------------------------------------------
\* The batch loop of scripts/run_pilot.py over the rows of a catalog.  Here
\* args holds the rows read from the input CSV, result the rows collected
\* for the output, the flag counter and the valid count, and pc is "loop"
\* while rows are processed, "written" once the output file and the summary
\* are out, and "halted" when an exception ended the run before that.

MaxRows == 3

\* the cells of a catalog row as csv.DictReader hands them over: None is a
\* cell the row does not have, NaN stands for the text "nan" and Str for
\* text that float() cannot parse
RowInputs ==
  {[theta_E_arcsec |-> FRat(12, 10), z_l |-> FRat(3, 10), z_s |-> FRat(11, 10)],
   [theta_E_arcsec |-> FRat(12, 10), z_l |-> FRat(8, 10), z_s |-> FRat(8, 10)],
   [theta_E_arcsec |-> Str, z_l |-> FRat(3, 10), z_s |-> None],
   [theta_E_arcsec |-> NaN, z_l |-> PInf, z_s |-> FRat(-1, 2)],
   [theta_E_arcsec |-> FRat(12, 10), z_l |-> FRat(3, 10), z_s |-> Huge]}

\* _safe_float: None for a missing cell and for the texts that mean
\* "no value", float(s) otherwise
safe_float(x) ==
  IF x.k = "none" \/ x.k = "nan" THEN None
  ELSE IF x.k = "str" THEN Exc("ValueError")
  ELSE x

\* try: _safe_float(cell) except Exception: the raw cell
cell(x) == IF IsExc(safe_float(x)) THEN x ELSE safe_float(x)

\* ";".join(flags) if flags else ""
RECURSIVE join_flags(_)
join_flags(flags) ==
  IF flags = <<>> THEN ""
  ELSE IF Len(flags) = 1 THEN flags[1]
  ELSE flags[1] \o ";" \o join_flags(Tail(flags))

\* for fl in flags: flag_counts[fl] += 1
RECURSIVE count_flags(_, _)
count_flags(counts, flags) ==
  IF flags = <<>> THEN counts
  ELSE count_flags(IF flags[1] \in DOMAIN counts
                   THEN [counts EXCEPT ![flags[1]] = @ + 1]
                   ELSE counts @@ (flags[1] :> 1),
                   Tail(flags))

\* compute_sensitivity on the cells of a row, with the h and delta_z of
\* the pilot
row_result(row) ==
  compute_sensitivity(cell(row.theta_E_arcsec), cell(row.z_l), cell(row.z_s),
                      cosmo, np, FRat(1, 1000), FRat(1, 10))

NoRows == [out_rows |-> <<>>, flag_counts |-> <<>>, n_valid |-> 0]

BatchInit ==
  /\ np \in BOOLEAN
  /\ cosmo = Shared
  /\ \E n \in 0..MaxRows :
       \E rows \in [1..n -> RowInputs] :
         args = [i \in 1..n |-> [lens_id |-> i] @@ rows[i]]
  /\ pc = "loop"
  /\ result = NoRows

\* the body of the loop once compute_sensitivity has returned res for the
\* row; an exception of compute_sensitivity is caught nowhere and ends
\* the run
Collect(row, res) ==
  IF res.status = "raised"
  THEN /\ pc' = "halted"
       /\ UNCHANGED result
  ELSE /\ pc' = "loop"
       /\ result' =
            [out_rows |-> Append(result.out_rows,
                                 [lens_id |-> row.lens_id,
                                  is_valid |-> res.out.is_valid,
                                  flags |-> join_flags(res.out.flags)]),
             flag_counts |-> count_flags(result.flag_counts, res.out.flags),
             n_valid |-> result.n_valid
                         + (IF res.out.is_valid THEN 1 ELSE 0)]

\* one pass of "for row in in_rows"
BatchRow ==
  /\ pc = "loop"
  /\ Len(result.out_rows) < Len(args)
  /\ Collect(args[Len(result.out_rows) + 1],
             row_result(args[Len(result.out_rows) + 1]))
  /\ UNCHANGED <<np, cosmo, args>>

\* after the loop: _write_output and the console summary
BatchWrite ==
  /\ pc = "loop"
  /\ Len(result.out_rows) = Len(args)
  /\ pc' = "written"
  /\ UNCHANGED <<np, cosmo, args, result>>

BatchNext == BatchRow \/ BatchWrite

BatchSpec == BatchInit /\ [][BatchNext]_vars

\* the flags compute_sensitivity returns for input row i, and how many
\* times f is among them
RowFlags(i) == row_result(args[i]).out.flags
RowTimes(i, f) ==
  Cardinality({j \in 1..Len(RowFlags(i)) : RowFlags(i)[j] = f})
RECURSIVE TotalTimes(_, _)
TotalTimes(n, f) == IF n = 0 THEN 0 ELSE TotalTimes(n - 1, f) + RowTimes(n, f)

\* the output and the summary agree with the input rows: a row out per
\* row in, in input order, each with its flags joined by semicolons; the
\* valid and invalid counts add up to the number of input rows; the flag
\* table counts every occurrence of every flag once
BatchFaithful ==
  /\ Len(result.out_rows) = Len(args)
  /\ \A i \in 1..Len(args) :
       /\ result.out_rows[i].lens_id = args[i].lens_id
       /\ result.out_rows[i].flags = join_flags(RowFlags(i))
  /\ result.n_valid
       = Cardinality({i \in 1..Len(args) : result.out_rows[i].is_valid})
  /\ result.n_valid + (Len(result.out_rows) - result.n_valid) = Len(args)
  /\ \A i \in 1..Len(args) : \A j \in 1..Len(RowFlags(i)) :
       RowFlags(i)[j] \in DOMAIN result.flag_counts
  /\ \A f \in DOMAIN result.flag_counts :
       result.flag_counts[f] = TotalTimes(Len(args), f)

InFallback ==
  /\ Validated /\ ~IsExc(Hf) /\ ReachedDiff
  /\ ~IsExc(LnP) /\ ~IsExc(LnM)
  /\ ~(is_finite(LnP) /\ is_finite(LnM))

\* C28: with sigma_crit a deterministic function of its arguments,
\* compute_sensitivity never returns the flag nonfinite_lnSigma_at_zs: a
\* call that reaches the fallback has already checked Sigma_crit(z_l, z_s)
\* finite and > 0, so lnSigma(z_s) is finite there.
C28_NeverNonfiniteLnSigmaAtZs ==
  /\ DidReturn => ~HasFlag("flag_nonfinite_lnSigma_at_zs")
  /\ (Done /\ InFallback) => (FinPos(SigV) /\ is_finite(Ln0))

\* a call has gone through the fallback and returned
C28_Witness == DidReturn /\ InFallback /\ FinPos(Out.Sigma_crit_kg_m2)

\* C29: with the FlatLambdaCDM engine, for every input that passes raw
\* validation and every finite h > 0, compute_sensitivity never uses the
\* backward difference: in the fallback the forward term lnSigma(z_s + h)
\* is finite, so neither used_backward_diff nor the nonfinite_S failure of
\* the ladder is returned.
C29_NeverBackward ==
  (DidReturn /\ Validated /\ HPositive /\ IsFin(Hf))
  => /\ ~HasFlag(BwdFlag)
     /\ InFallback => is_finite(LnP)

\* ------------------------------------------------------------------------
\* Simpson's rule (CosmoSpec): the integral of 1/E from 0 to z1 that
\* comoving_distance(z1) asks for.

\* h = (b - a)/n and f at the node a + i*h, for a = 0, b = z1, n = n_int
SimpsonStep == FDiv(FALSE, FSub(args.z1, Zero), FromInt(cosmo.n_int))
FAtNode(numpy, i) ==
  invE(cosmo, numpy, FAdd(Zero, FMul(FromInt(i), SimpsonStep)))

\* f(a + j*h) summed over j = ..., i - 2, i from the first interior node of
\* that parity on
RECURSIVE SumTo(_, _)
SumTo(numpy, i) ==
  IF i < 1 THEN Zero ELSE FAdd(SumTo(numpy, i - 2), FAtNode(numpy, i))

\* (h/3) [f(a) + f(b) + 4 sum of f at odd nodes + 2 sum at even interior
\* nodes]
CompositeSimpson(numpy) ==
  FMul(FDiv(FALSE, SimpsonStep, FromInt(3)),
       FAdd(FAdd(FAdd(invE(cosmo, numpy, Zero), invE(cosmo, numpy, args.z1)),
                 FMul(FromInt(4), SumTo(numpy, cosmo.n_int - 1))),
            FMul(FromInt(2), SumTo(numpy, cosmo.n_int - 2))))

\* C25: _simpson_integrate(f, a, b, n) is exactly the composite Simpson sum
\* (h/3) [f(a) + f(b) + 4 sum of f at odd nodes + 2 sum of f at even
\* interior nodes] with h = (b - a)/n over the nodes a + i*h, with the same
\* weights, and so the same value, in the vectorized and in the scalar path;
\* and it rejects every n that is not a positive even integer.
C25_SimpsonCompositeSum ==
  (Called("comoving_distance") /\ IsFin(args.z1) /\ FGt(args.z1, Zero))
  => /\ CanIntegrate
        => /\ simpson_integrate(cosmo, np, Zero, args.z1, cosmo.n_int)
                = CompositeSimpson(np)
           /\ result.value = FMul(FDiv(FALSE, C_LIGHT, cosmo.H0_SI),
                                  CompositeSimpson(np))
           /\ BoundedZ(args.z1)
                => /\ CompositeSimpson(TRUE) = CompositeSimpson(FALSE)
                   /\ IsFin(result.value)
     /\ \A n \in NIntInputs :
          (n <= 0 \/ n % 2 # 0)
          => simpson_integrate(cosmo, np, Zero, args.z1, n)
               = Exc("ValueError")
     /\ ~CanIntegrate => result.value = Exc("ValueError")

\* comoving_distance(1.1) has integrated over four subintervals, which have
\* odd nodes and an even interior node, to a finite distance
C25_Witness ==
  /\ Called("comoving_distance")
  /\ args.z1 = FRat(11, 10)
  /\ cosmo.n_int >= 4
  /\ IsFin(result.value)
  /\ FGt(result.value, Zero)

\* ------------------------------------------------------------------------
\* One call of compute_sensitivity run stage by stage (StagedSpec), with
\* the queries it makes of the cosmology.  Here pc is the stage the call is
\* at ("validate", "step_check", "distance", "sigma", "difference", "done")
\* and result holds the set of methods of cosmo invoked so far, the local
\* variables of the call and what it produced.

StagedInputs ==
  [theta_E_arcsec : {None, FRat(12, 10), Huge},
   z_l : {NaN, FRat(3, 10), Round(3019, -12), FRat(8, 10)},
   z_s : {None, Round(3020, -12), FRat(8, 10), FRat(11, 10), Huge},
   h : {None, Str, NaN, Zero, Round(1, -12), FRat(1, 1000), FromInt(1)},
   delta_z : {FRat(1, 10)}]

\* the local variables before they are assigned
NoLocals == [v |-> NotValidated, D_l |-> None, Sigma |-> None]

StagedInit ==
  /\ np \in BOOLEAN
  /\ cosmo = FlatLambdaCDM(FromInt(70), FRat(3, 10), None, NInt)
  /\ args \in StagedInputs
  /\ pc = "validate"
  /\ result = [queried |-> {}, locals |-> NoLocals, ret |-> NoResult]

\* what the whole call produces
WholeCall ==
  compute_sensitivity(args.theta_E_arcsec, args.z_l, args.z_s, cosmo, np,
                      args.h, args.delta_z)

\* the stage after raw validation: the call is over unless v is valid
after_validation(v) ==
  IF v.exc # "none" \/ ~v.is_valid THEN "done" ELSE "step_check"

\* the stage after the step-size check "h is None or float(h) <= 0.0"
after_step_check(h) ==
  IF h.k = "none" \/ IsExc(ToFloat(h)) \/ FLe(ToFloat(h), Zero)
  THEN "done" ELSE "distance"

\* the stage after D_l = cosmo.angular_diameter_distance(zl)
after_distance(D_l) == IF IsExc(D_l) THEN "done" ELSE "sigma"

\* M_inf = pi (D_l theta_rad)^2 Sigma
M_inf_of(numpy, th, D_l, Sigma) ==
  FMul(FMul(PI, FPow(numpy, FMul(D_l, FMul(th, ARCSEC_TO_RAD)), 2)), Sigma)

\* the stage after Sigma = cosmo.sigma_crit(zl, zs) and the checks of D_l,
\* Sigma and M_inf
after_core(D_l, Sigma, M_inf) ==
  IF \/ IsExc(Sigma) \/ not_finite_positive(D_l)
     \/ not_finite_positive(Sigma)
     \/ IsExc(M_inf) \/ not_finite_positive(M_inf)
  THEN "done" ELSE "difference"

\* a stage is over: the call is at the stage next, having invoked the
\* methods q and assigned the locals; it returns or raises when next is
\* "done"
Staged(next, q, locals) ==
  /\ pc' = next
  /\ result' = [queried |-> result.queried \cup q,
                locals |-> locals,
                ret |-> IF next = "done" THEN WholeCall ELSE result.ret]
  /\ UNCHANGED <<np, cosmo, args>>

\* v = validate_lens_inputs(...), strict and with z_s required
RawValidationOf(v) ==
  Staged(after_validation(v), {}, [result.locals EXCEPT !.v = v])

RawValidation ==
  /\ pc = "validate"
  /\ RawValidationOf(validate_lens_inputs(args.theta_E_arcsec, args.z_l,
                                          args.z_s, TRUE, TRUE))

StepSizeCheck ==
  /\ pc = "step_check"
  /\ Staged(after_step_check(args.h), {}, result.locals)

\* D_l = cosmo.angular_diameter_distance(zl)
QueryDistanceOf(D_l) ==
  Staged(after_distance(D_l), {"angular_diameter_distance"},
         [result.locals EXCEPT !.D_l = D_l])

QueryDistance ==
  /\ pc = "distance"
  /\ QueryDistanceOf(angular_diameter_distance(
                       cosmo, np, result.locals.v.normalized.z_l))

\* Sigma = cosmo.sigma_crit(zl, zs), the checks and M_inf
QuerySigmaOf(Sigma) ==
  Staged(after_core(result.locals.D_l, Sigma,
                    M_inf_of(np, result.locals.v.normalized.theta_E_arcsec,
                             result.locals.D_l, Sigma)),
         {"sigma_crit"}, [result.locals EXCEPT !.Sigma = Sigma])

QuerySigma ==
  /\ pc = "sigma"
  /\ QuerySigmaOf(sigma_crit(cosmo, np, result.locals.v.normalized.z_l,
                             result.locals.v.normalized.z_s))

\* the finite difference: every path through it starts with
\* ln_sigma(z_plus), which calls cosmo.sigma_crit
Difference ==
  /\ pc = "difference"
  /\ Staged("done", {"sigma_crit"}, result.locals)

StagedNext ==
  \/ RawValidation
  \/ StepSizeCheck
  \/ QueryDistance
  \/ QuerySigma
  \/ Difference

StagedSpec == StagedInit /\ [][StagedNext]_vars

\* C26: compute_sensitivity queries the cosmology only after raw validation
\* has passed and h has been accepted: a run that fails raw validation, or
\* whose h is absent or not greater than 0, returns its result without
\* having invoked any cosmology method.
C26_NoQueryBeforeChecks ==
  /\ result.queried # {} => (Validated /\ HPositive)
  /\ (pc = "done" /\ result.ret.status = "returned"
      /\ ~(Validated /\ HPositive))
     => result.queried = {}

\* the place of a flag in the detection order: the coercion flags of
\* theta_E, of z_l and of z_s, then the four cross-field flags; 0 for a
\* string that is no flag of the validator
DetectionRank(f) ==
  CASE f \in {CoercionFlag(k, "thetaE") : k \in FailKinds} -> 1
    [] f \in {CoercionFlag(k, "zl") : k \in FailKinds} -> 2
    [] f \in {CoercionFlag(k, "zs") : k \in FailKinds} -> 3
    [] f = "flag_thetaE_nonpositive" -> 4
    [] f = "flag_zl_negative" -> 5
    [] f = "flag_zs_negative" -> 6
    [] f = "flag_zs_le_zl" -> 7
    [] OTHER -> 0

\* C27: validate_lens_inputs emits its flags in one fixed detection order
\* with no duplicates (the coercion flag of theta_E, of z_l, of z_s, then
\* thetaE_nonpositive, zl_negative, zs_negative, zs_le_zl), and a second
\* call with the same arguments returns the same flag sequence.
C27_FlagsInDetectionOrder ==
  HasValidated
  => /\ \A i \in 1..Len(result.flags) : DetectionRank(result.flags[i]) > 0
     /\ \A i \in 1..Len(result.flags) : \A j \in 1..Len(result.flags) :
          i < j => DetectionRank(result.flags[i])
                     < DetectionRank(result.flags[j])
     /\ result.flags
          = validate_lens_inputs(args.theta_E_arcsec, args.z_l, args.z_s,
                                 args.require_zs, args.strict).flags

\* a call with theta_E missing, z_l = 0.3 and z_s = -0.5 has returned the
\* coercion flag, then zs_negative, then zs_le_zl
C27_Witness ==
  /\ HasValidated
  /\ result.flags = <<"flag_missing_thetaE", "flag_zs_negative",
                      "flag_zs_le_zl">>

\* ------------------------------------------------------------------------
\* metrics/sensitivity.py: the kernel of run_catalog.py.  It works on numpy
\* values throughout, so its divisions and powers are IEEE's and raise
\* nothing.

\* E(z, Om0) = np.sqrt(Om0*(1+z)**3 + (1-Om0))
metrics_E(z, Om0) == E([Om0 |-> Om0, Ode0 |-> FSub(One, Om0)], TRUE, z)

\* comoving_distance(z, H0, Om0, n): 0.0 for z <= 0, else Simpson's sum of
\* 1/E over np.linspace(0.0, z, n+1) with h = z/n, times C/H0
metrics_comoving_distance(z, H0, Om0, n) ==
  IF FLe(z, Zero) THEN Zero
  ELSE FMul(FDiv(TRUE, C_LIGHT, H0),
            simpson_sum([Om0 |-> Om0, Ode0 |-> FSub(One, Om0)], TRUE, Zero, z,
                        IF n % 2 = 1 THEN n + 1 ELSE n,
                        FDiv(TRUE, z,
                             FromInt(IF n % 2 = 1 THEN n + 1 ELSE n))))

\* angular_diameter_distance(z, H0, Om0); the default n = 4096 of
\* comoving_distance is modelled by the resolution NInt
metrics_angular_diameter_distance(z, H0, Om0) ==
  FDiv(TRUE, metrics_comoving_distance(z, H0, Om0, NInt), FAdd(One, z))

\* angular_diameter_distance_z1z2(z1, z2, H0, Om0)
metrics_angular_diameter_distance_z1z2(z1, z2, H0, Om0) ==
  IF FLe(z2, z1) THEN NaN
  ELSE FDiv(TRUE,
            FSub(metrics_comoving_distance(z2, H0, Om0, NInt),
                 metrics_comoving_distance(z1, H0, Om0, NInt)),
            FAdd(One, z2))

\* sigma_crit once Dl, Ds and Dls are known
metrics_sigma_of(Dl, Ds, Dls) ==
  IF ~IsFin(Dls) \/ FLe(Dls, Zero) \/ FLe(Dl, Zero) \/ FLe(Ds, Zero)
  THEN NaN
  ELSE FMul(FDiv(TRUE, FPow(TRUE, C_LIGHT, 2),
                 FMul(FMul(FromInt(4), PI), G_NEWTON)),
            FDiv(TRUE, Ds, FMul(Dl, Dls)))

\* sigma_crit(zl, zs, H0, Om0)
metrics_sigma_crit(zl, zs, H0, Om0) ==
  metrics_sigma_of(metrics_angular_diameter_distance(zl, H0, Om0),
                   metrics_angular_diameter_distance(zs, H0, Om0),
                   metrics_angular_diameter_distance_z1z2(zl, zs, H0, Om0))

\* Minf once Dl and Sig are known
Minf_of(thetaE_arcsec, Dl, Sig) ==
  IF ~IsFin(Dl) \/ FLe(Dl, Zero) THEN NaN
  ELSE IF ~IsFin(Sig) THEN NaN
  ELSE FMul(FMul(PI, FPow(TRUE, FMul(Dl, FMul(thetaE_arcsec, ARCSEC_TO_RAD)),
                          2)),
            Sig)

\* Minf(thetaE_arcsec, zl, zs, H0, Om0)
Minf(thetaE_arcsec, zl, zs, H0, Om0) ==
  Minf_of(thetaE_arcsec, metrics_angular_diameter_distance(zl, H0, Om0),
          metrics_sigma_crit(zl, zs, H0, Om0))

\* the two source redshifts dlnM_dzs differences at: zs - dz and zs + dz,
\* or zs and zs + 2*dz when zs - dz <= zl + 1e-6
dlnM_nodes(zl, zs, dz) ==
  IF FLe(FSub(zs, dz), FAdd(zl, FRat(1, 1000000)))
  THEN <<zs, FAdd(zs, FMul(FromInt(2), dz))>>
  ELSE <<FSub(zs, dz), FAdd(zs, dz)>>

\* dlnM_dzs once M1 and M2 are known
dlnM_of(z1, z2, M1, M2) ==
  IF ~IsFin(M1) \/ ~IsFin(M2) \/ FLe(M1, Zero) \/ FLe(M2, Zero) THEN NaN
  ELSE FDiv(TRUE, FSub(FLog(M2), FLog(M1)), FSub(z2, z1))

\* dlnM_dzs(thetaE_arcsec, zl, zs, H0, Om0, dz)
dlnM_dzs(thetaE_arcsec, zl, zs, H0, Om0, dz) ==
  dlnM_of(dlnM_nodes(zl, zs, dz)[1], dlnM_nodes(zl, zs, dz)[2],
          Minf(thetaE_arcsec, zl, dlnM_nodes(zl, zs, dz)[1], H0, Om0),
          Minf(thetaE_arcsec, zl, dlnM_nodes(zl, zs, dz)[2], H0, Om0))

\* ------------------------------------------------------------------------
\* The two kernels on one system (KernelsSpec): run_pilot.py hands it to
\* compute_sensitivity, run_catalog.py to dlnM_dzs with dz = h, in either
\* order.  Here pc is the set of kernels that have run and result holds
\* what compute_sensitivity produced and the metric columns run_catalog.py
\* stores for the row.

KernelInputs ==
  [theta_E_arcsec : {FRat(1, 2), FRat(12, 10)},
   z_l : {FRat(3, 10), Round(3019, -12)},
   z_s : {Round(3020, -12), Round(3021, -12), FRat(8, 10), FRat(11, 10)},
   h : {Round(1, -12), FRat(1, 1000), FRat(1, 10), FromInt(1)},
   delta_z : {FRat(1, 10)}]

\* the metric columns of a row, NaN until the loop reaches it
NoRow == [dlnM_dzs |-> NaN, S_log |-> NaN, delta_lnM_0p1 |-> NaN,
          Minf_zs |-> NaN]

\* the columns the loop of run_catalog.py stores for a row, once d is known
catalog_row(d, M) ==
  [dlnM_dzs |-> d,
   S_log |-> IF IsFin(d) THEN FAbs(d) ELSE NaN,
   delta_lnM_0p1 |-> IF IsFin(d) THEN FMul(FAbs(d), FRat(1, 10)) ELSE NaN,
   Minf_zs |-> M]

KernelsInit ==
  /\ np = TRUE
  /\ cosmo = FlatLambdaCDM(FromInt(70), FRat(3, 10), None, NInt)
  /\ args \in KernelInputs
  /\ pc = {}
  /\ result = [pilot |-> NoResult, catalog |-> NoRow]

\* run_pilot.py: compute_sensitivity on the system
RunPilot ==
  /\ "pilot" \notin pc
  /\ pc' = pc \cup {"pilot"}
  /\ result' = [result EXCEPT !.pilot =
                  compute_sensitivity(args.theta_E_arcsec, args.z_l,
                                      args.z_s, cosmo, np, args.h,
                                      args.delta_z)]
  /\ UNCHANGED <<np, cosmo, args>>

\* run_catalog.py: dlnM_dzs on the system
RunCatalog ==
  /\ "catalog" \notin pc
  /\ pc' = pc \cup {"catalog"}
  /\ result' = [result EXCEPT !.catalog =
                  catalog_row(dlnM_dzs(args.theta_E_arcsec, args.z_l,
                                       args.z_s, cosmo.H0_SI, cosmo.Om0,
                                       args.h),
                              Minf(args.theta_E_arcsec, args.z_l, args.z_s,
                                   cosmo.H0_SI, cosmo.Om0))]
  /\ UNCHANGED <<np, cosmo, args>>

KernelsNext ==
  \/ RunPilot
  \/ RunCatalog

KernelsSpec == KernelsInit /\ [][KernelsNext]_vars

\* the pair of source redshifts compute_sensitivity differenced at, by the
\* flags of its valid record
PilotNodes ==
  IF result.pilot.out.flags = <<>> THEN <<ZMinus, ZPlus>>
  ELSE IF result.pilot.out.flags = <<FwdFlag>> THEN <<Zs, ZPlus>>
  ELSE <<ZMinus, Zs>>
\* the pair dlnM_dzs differenced at
CatalogNodes == dlnM_nodes(args.z_l, args.z_s, args.h)
\* both kernels have run and each returned a derivative
BothDifferenced ==
  /\ pc = {"pilot", "catalog"}
  /\ result.pilot.status = "returned" /\ result.pilot.out.is_valid
  /\ IsFin(result.catalog.dlnM_dzs)

\* C30: for every system with theta_E > 0, 0 < z_l < z_s and h > 0,
\* dlnM_dzs and compute_sensitivity difference the logarithm at the same
\* pair of source redshifts, [z_s - h, z_s + h] when both sides are defined
\* and [z_s, z_s + h] otherwise, and so divide by the same separation.
C30_SameNodes ==
  BothDifferenced
  => /\ CatalogNodes = PilotNodes
     /\ CatalogNodes \in {<<ZMinus, ZPlus>>, <<Zs, ZPlus>>}

====
